---------------------------- MODULE Spec2Model ----------------------------
(***************************************************************************)
(* The tower-defense game of "Python/Creational Patterns/Prototype         *)
(* Pattern/tower.py" (class TowerDefenseGame with Tower, BomberTower,      *)
(* Enemy, EnemyFactory and WaveManager) as a state machine (Spec), and     *)
(* three of its units on their own: the CannonTower of simpletower.py and  *)
(* the BomberTower of tower.py attacking a group of enemies (SpecArea),    *)
(* and a Tower upgraded again and again (SpecUpgrade).                     *)
(*                                                                         *)
(* Units.  Tower coordinates, radii and click positions are pixels.  Enemy *)
(* coordinates and speeds are half pixels (Scale = 2): the fast enemy      *)
(* moves 3.5 pixels a frame, and every segment of the path is parallel to  *)
(* an axis, so every enemy position is an exact multiple of 0.5 and the    *)
(* float arithmetic of Enemy.update is exact.  A distance d <= r is        *)
(* compared as d^2 <= r^2: math.sqrt is monotone and exact on the squares  *)
(* that occur.                                                             *)
(***************************************************************************)
EXTENDS Integers, Sequences, FiniteSets, TLC

VARIABLES
    money,                \* TowerDefenseGame.money
    lives,                \* TowerDefenseGame.lives
    score,                \* TowerDefenseGame.score
    game_state,           \* TowerDefenseGame.game_state
    path,                 \* TowerDefenseGame.path
    waves,                \* WaveManager.waves
    current_wave,         \* WaveManager.current_wave
    spawn_timer,          \* WaveManager.spawn_timer
    enemy_index,          \* WaveManager.enemy_index
    active,               \* WaveManager.active
    towers,               \* TowerDefenseGame.towers
    enemies,              \* TowerDefenseGame.enemies
    tower_prototypes,     \* TowerDefenseGame.tower_prototypes
    selected_tower_type,  \* TowerDefenseGame.selected_tower_type
    dragging_tower,       \* TowerDefenseGame.dragging_tower (the kind cloned)
    selected_tower,       \* TowerDefenseGame.selected_tower (a tower id)
    next_tower,           \* identity of the next Tower object placed
    next_enemy,           \* identity of the next Enemy object created
    ret,                  \* the last handler called and what it returned
    cannon,               \* simpletower.py: a CannonTower object
    foes,                 \* simpletower.py: the enemies given to its update
    bomber,               \* a BomberTower object, attacking on its own
    crowd,                \* the enemies given to its attack
    unit,                 \* a Tower object after each call of its upgrade
    sentry,               \* a BasicTower object, attacking on its own
    raiders               \* the enemies given to its attack

game_vars ==
    <<money, lives, score, game_state, path, waves, current_wave,
      spawn_timer, enemy_index, active, towers, enemies,
      tower_prototypes, selected_tower_type, dragging_tower,
      selected_tower, next_tower, next_enemy, ret>>

unit_vars == <<cannon, foes, bomber, crowd, unit, sentry, raiders>>

vars == <<game_vars, unit_vars>>

-----------------------------------------------------------------------------
(* Program constants *)

SCREEN_WIDTH == 800
SCREEN_HEIGHT == 600
GRID_SIZE == 40

GAME_STATE_PLAYING == 0
GAME_STATE_GAME_OVER == 1
GAME_STATE_VICTORY == 2

\* Enemy coordinates are kept in units of 1/Scale pixel.
Scale == 2

\* None, for a field that holds an object identity (ids start at 1).
None == 0

\* None, for selected_tower_type and dragging_tower.
NoType == "none"

\* WaveManager.spawn_delay
SpawnDelay == 60

\* is_position_valid's buffer distance from the path's waypoints
PathBuffer == 30

\* is_position_valid's buffer distance between towers
TowerBuffer == 40

\* select_tower's click radius
SelectRadius == 20

\* TowerDefenseGame.__init__: self.money
StartMoney == 200

-----------------------------------------------------------------------------
(* Bounds of the model *)

\* The game starts with StartLives lives (the code's 20 scaled down, so that
\* the waves of the model can exhaust them).
StartLives == 2

\* The enemies walk the first PathLen waypoints of the code's path.
PathLen == 3

\* upgrade_selected_tower is not called on a tower of level MaxLevel.
MaxLevel == 3

\* place_tower is not called once it has placed MaxTowers towers.
MaxTowers == 2

\* add_wave is called at most MaxWaves times on the wave manager of SpecWaves.
MaxWaves == 2

\* On the small lot of SpecLot place_tower is called until it has placed
\* LotTowers towers.
LotTowers == 4


-----------------------------------------------------------------------------
(* Data built by the constructors *)

\* TowerDefenseGame.__init__: self.path
FullPath ==
    << <<0, 300>>, <<200, 300>>, <<200, 150>>, <<400, 150>>,
       <<400, 450>>, <<600, 450>>, <<600, 300>>, <<800, 300>> >>

\* setup_waves, scaled down: two waves instead of five, of two and one
\* enemies instead of ten to thirty, with each kind of enemy once.
SetupWaves == << <<"basic", "fast">>, <<"tank">> >>

TowerKinds == {"basic", "sniper", "bomber"}

\* Tower.__init__ as called by BasicTower, SniperTower and BomberTower
\* with x = y = 0.
Tower(name, radius, damage, cooldown, cost) ==
    [id |-> None, name |-> name, x |-> 0, y |-> 0, radius |-> radius,
     damage |-> damage, cooldown |-> cooldown, cooldown_counter |-> 0,
     cost |-> cost, level |-> 1, target |-> None]

BasicTower == Tower("basic", 100, 10, 30, 50)
SniperTower == Tower("sniper", 200, 30, 60, 100)
BomberTower == Tower("bomber", 80, 15, 45, 75)

\* TowerDefenseGame.__init__: self.tower_prototypes
Prototypes ==
    [k \in TowerKinds |->
        CASE k = "basic" -> BasicTower
          [] k = "sniper" -> SniperTower
          [] k = "bomber" -> BomberTower]

EnemyKinds == {"basic", "fast", "tank"}

\* Enemy.__init__: the enemy starts on the first waypoint with full health.
Enemy(id, p, speed, health, value) ==
    [id |-> id, path_index |-> 0, x |-> Scale * p[1][1], y |-> Scale * p[1][2],
     speed |-> speed, health |-> health, value |-> value]

\* create_enemy with a basic enemy worth 15.
CreateEnemyRich(id, enemy_type, p) ==
    CASE enemy_type = "basic" -> Enemy(id, p, 4, 50, 15)
      [] enemy_type = "fast" -> Enemy(id, p, 7, 30, 15)
      [] enemy_type = "tank" -> Enemy(id, p, 2, 150, 25)

\* EnemyFactory.create_enemy; speeds 2.0, 3.5 and 1.0 pixels in half pixels.
\* (The ValueError branch is not reachable: the waves hold only these kinds.)
CreateEnemy(id, enemy_type, p) ==
    CASE enemy_type = "basic" -> Enemy(id, p, 4, 50, 10)
      [] enemy_type = "fast" -> Enemy(id, p, 7, 30, 15)
      [] enemy_type = "tank" -> Enemy(id, p, 2, 150, 25)

-----------------------------------------------------------------------------
(* Arithmetic *)

Sq(n) == n * n

Max(a, b) == IF a >= b THEN a ELSE b

\* The squared distance, in half pixels, between a point given in pixels
\* (a tower) and one given in half pixels (an enemy).
TowerEnemyDist2(t, e) == Sq(Scale * t.x - e.x) + Sq(Scale * t.y - e.y)

\* The squared distance between two points given in pixels.
Dist2(ax, ay, bx, by) == Sq(ax - bx) + Sq(ay - by)

\* math.sqrt(...) <= tower.radius
InRange(t, e) == TowerEnemyDist2(t, e) <= Sq(Scale * t.radius)

-----------------------------------------------------------------------------
(* Tower *)

\* Tower.clone that hands out a copy whose cooldown is already running.
CloneWithCounter(t) == [t EXCEPT !.cooldown_counter = t.cooldown]

\* Tower.clone: copy.deepcopy gives an object that shares nothing with the
\* prototype; a record is a value, so the copy is the record itself.
Clone(t) == t

\* Tower.upgrade that also starts the shortened cooldown anew.
UpgradeRestartsCooldown(t) ==
    [t EXCEPT !.level = t.level + 1,
              !.damage = (t.damage * 3) \div 2,
              !.radius = t.radius + 20,
              !.cooldown = Max(10, (t.cooldown * 4) \div 5),
              !.cooldown_counter = Max(10, (t.cooldown * 4) \div 5)]

\* Tower.upgrade without the floor of 10 under the cooldown.
UpgradeUnclamped(t) ==
    [t EXCEPT !.level = t.level + 1,
              !.damage = (t.damage * 3) \div 2,
              !.radius = t.radius + 20,
              !.cooldown = (t.cooldown * 4) \div 5]

\* Tower.upgrade.  int(damage * 1.5) and int(cooldown * 0.8) are the floors
\* of 3*damage/2 and 4*cooldown/5 for every integer below 2000 (the float
\* products are never below the exact ones there).
Upgrade(t) ==
    [t EXCEPT !.level = t.level + 1,
              !.damage = (t.damage * 3) \div 2,
              !.radius = t.radius + 20,
              !.cooldown = Max(10, (t.cooldown * 4) \div 5)]

\* What Tower.upgrade returns: the upgrade cost.
UpgradeCost(t) == t.cost \div 2

\* A refund that counts what the upgrades have cost as well.
SellValueOfLevel(t) == ((t.cost + (t.level - 1) * (t.cost \div 2)) * 7) \div 10

\* sell_selected_tower refunding 70% of the cost once for every level.
SellValueTimesLevel(t) == ((t.cost * 7) \div 10) * t.level

\* sell_selected_tower: int(cost * 0.7), the floor of 7*cost/10 for the
\* costs 50, 75 and 100 of the three prototypes.
SellValue(t) == (t.cost * 7) \div 10

\* Tower.can_attack with < for <=.
CanAttackBelowZero(t) == t.cooldown_counter < 0

\* Tower.can_attack
CanAttack(t) == t.cooldown_counter <= 0

\* Tower.find_target's loop with <= for < in the comparison with min_distance.
RECURSIVE FindTargetFromLast(_, _, _, _, _)
FindTargetFromLast(t, es, i, best, bestd) ==
    IF i > Len(es) THEN best
    ELSE LET d == TowerEnemyDist2(t, es[i])
         IN IF InRange(t, es[i]) /\ (bestd < 0 \/ d <= bestd)
            THEN FindTargetFromLast(t, es, i + 1, es[i].id, d)
            ELSE FindTargetFromLast(t, es, i + 1, best, bestd)

\* Tower.find_target's loop from enemy i on: (closest, min_distance) so far
\* is (best, bestd); bestd < 0 stands for float('inf').
RECURSIVE FindTargetFrom(_, _, _, _, _)
FindTargetFrom(t, es, i, best, bestd) ==
    IF i > Len(es) THEN best
    ELSE LET d == TowerEnemyDist2(t, es[i])
         IN IF InRange(t, es[i]) /\ (bestd < 0 \/ d < bestd)
            THEN FindTargetFrom(t, es, i + 1, es[i].id, d)
            ELSE FindTargetFrom(t, es, i + 1, best, bestd)

\* Tower.find_target: the id of the closest enemy in range, or None.
FindTarget(t, es) == FindTargetFrom(t, es, 1, None, -1)

\* enemy.health -= damage, for the enemies whose id is in hit
Damage(es, hit, damage) ==
    [i \in 1..Len(es) |->
        IF es[i].id \in hit
        THEN [es[i] EXCEPT !.health = es[i].health - damage]
        ELSE es[i]]

\* Tower.attack that starts the cooldown also when it found no target.
TowerAttackResetsOnMiss(t, es) ==
    IF ~CanAttack(t)
    THEN [tower |-> [t EXCEPT !.cooldown_counter = t.cooldown_counter - 1],
          enemies |-> es, dealt |-> 0]
    ELSE LET tg == FindTarget(t, es)
         IN IF tg # None
            THEN [tower |-> [t EXCEPT !.target = tg,
                                      !.cooldown_counter = t.cooldown],
                  enemies |-> Damage(es, {tg}, t.damage),
                  dealt |-> t.damage]
            ELSE [tower |-> [t EXCEPT !.target = None,
                                      !.cooldown_counter = t.cooldown],
                  enemies |-> es, dealt |-> 0]

\* Tower.attack that sets the counter to cooldown - 1 after a hit.
TowerAttackShortCooldown(t, es) ==
    IF ~CanAttack(t)
    THEN [tower |-> [t EXCEPT !.cooldown_counter = t.cooldown_counter - 1],
          enemies |-> es, dealt |-> 0]
    ELSE LET tg == FindTarget(t, es)
         IN IF tg # None
            THEN [tower |-> [t EXCEPT !.target = tg,
                                      !.cooldown_counter = t.cooldown - 1],
                  enemies |-> Damage(es, {tg}, t.damage),
                  dealt |-> t.damage]
            ELSE [tower |-> [t EXCEPT !.target = None],
                  enemies |-> es, dealt |-> 0]

\* Tower.attack: the tower and the enemies after the call, and the damage
\* it returns.
TowerAttack(t, es) ==
    IF ~CanAttack(t)
    THEN [tower |-> [t EXCEPT !.cooldown_counter = t.cooldown_counter - 1],
          enemies |-> es, dealt |-> 0]
    ELSE LET tg == FindTarget(t, es)
         IN IF tg # None
            THEN [tower |-> [t EXCEPT !.target = tg,
                                      !.cooldown_counter = t.cooldown],
                  enemies |-> Damage(es, {tg}, t.damage),
                  dealt |-> t.damage]
            ELSE [tower |-> [t EXCEPT !.target = None],
                  enemies |-> es, dealt |-> 0]

\* BomberTower.attack: every enemy within the tower's own radius is hit; the
\* target field is not touched.
BomberAttack(t, es) ==
    IF ~CanAttack(t)
    THEN [tower |-> [t EXCEPT !.cooldown_counter = t.cooldown_counter - 1],
          enemies |-> es, dealt |-> 0]
    ELSE LET in_range == {es[i].id : i \in {j \in 1..Len(es) : InRange(t, es[j])}}
         IN IF in_range # {}
            THEN [tower |-> [t EXCEPT !.cooldown_counter = t.cooldown],
                  enemies |-> Damage(es, in_range, t.damage),
                  dealt |-> t.damage * Cardinality(in_range)]
            ELSE [tower |-> t, enemies |-> es, dealt |-> 0]

\* tower.attack(enemies), dispatched on the tower's class.
Attack(t, es) ==
    IF t.name = "bomber" THEN BomberAttack(t, es) ELSE TowerAttack(t, es)

\* update's loop "for tower in self.towers: tower.attack(self.enemies)" from
\* tower i on: the towers and the enemies after it.
RECURSIVE AttackAll(_, _, _)
AttackAll(ts, es, i) ==
    IF i > Len(ts) THEN [towers |-> ts, enemies |-> es]
    ELSE LET r == Attack(ts[i], es)
         IN AttackAll([ts EXCEPT ![i] = r.tower], r.enemies, i + 1)

-----------------------------------------------------------------------------
(* Enemy *)

\* The step along one axis: (d / distance) * speed on a segment parallel to
\* an axis, where d / distance is 1, -1 or 0.
AxisStep(d, speed) == IF d > 0 THEN speed ELSE IF d < 0 THEN -speed ELSE 0

\* Enemy.update returning True already in the call that moves the enemy onto
\* the last waypoint.
EnemyUpdateOnArrival(e, p) ==
    IF e.path_index >= Len(p) - 1
    THEN [enemy |-> e, reached_end |-> TRUE]
    ELSE LET tx == Scale * p[e.path_index + 2][1]
             ty == Scale * p[e.path_index + 2][2]
             dx == tx - e.x
             dy == ty - e.y
         IN IF Sq(dx) + Sq(dy) < Sq(e.speed)
            THEN [enemy |-> [e EXCEPT !.x = tx, !.y = ty,
                                      !.path_index = e.path_index + 1],
                  reached_end |-> e.path_index + 1 >= Len(p) - 1]
            ELSE [enemy |-> [e EXCEPT !.x = e.x + AxisStep(dx, e.speed),
                                      !.y = e.y + AxisStep(dy, e.speed)],
                  reached_end |-> FALSE]

\* Enemy.update: the enemy after the call and the value returned.
EnemyUpdate(e, p) ==
    IF e.path_index >= Len(p) - 1
    THEN [enemy |-> e, reached_end |-> TRUE]
    ELSE LET tx == Scale * p[e.path_index + 2][1]
             ty == Scale * p[e.path_index + 2][2]
             dx == tx - e.x
             dy == ty - e.y
         IN IF Sq(dx) + Sq(dy) < Sq(e.speed)
            THEN [enemy |-> [e EXCEPT !.x = tx, !.y = ty,
                                      !.path_index = e.path_index + 1],
                  reached_end |-> FALSE]
            ELSE [enemy |-> [e EXCEPT !.x = e.x + AxisStep(dx, e.speed),
                                      !.y = e.y + AxisStep(dy, e.speed)],
                  reached_end |-> FALSE]

\* is_alive with "health >= 0".
IsAliveAtZero(e) == e.health >= 0

\* Enemy.is_alive
IsAlive(e) == e.health > 0

-----------------------------------------------------------------------------
(* WaveManager *)

\* The WaveManager object as a record of its fields.
WaveManager ==
    [current_wave |-> current_wave, waves |-> waves,
     spawn_timer |-> spawn_timer, enemy_index |-> enemy_index,
     active |-> active]

\* WaveManager.start_wave without "self.enemy_index = 0".
WMStartWaveKeepsIndex(wm) ==
    IF wm.current_wave < Len(wm.waves)
    THEN [wm |-> [wm EXCEPT !.active = TRUE, !.spawn_timer = 0],
          ok |-> TRUE]
    ELSE [wm |-> wm, ok |-> FALSE]

\* WaveManager.start_wave without the test current_wave < len(waves).
WMStartWaveUnguarded(wm) ==
    [wm |-> [wm EXCEPT !.active = TRUE, !.enemy_index = 0, !.spawn_timer = 0],
     ok |-> TRUE]

\* WaveManager.start_wave: the manager after the call and the value returned.
WMStartWave(wm) ==
    IF wm.current_wave < Len(wm.waves)
    THEN [wm |-> [wm EXCEPT !.active = TRUE, !.enemy_index = 0,
                            !.spawn_timer = 0],
          ok |-> TRUE]
    ELSE [wm |-> wm, ok |-> FALSE]

\* WaveManager.update that also sets enemy_index to 0 when it ends a wave.
WMUpdateResetsIndex(wm) ==
    IF ~wm.active THEN [wm |-> wm, spawn |-> NoType]
    ELSE LET timer == wm.spawn_timer + 1
         IN IF timer >= SpawnDelay
            THEN IF wm.enemy_index < Len(wm.waves[wm.current_wave + 1])
                 THEN [wm |-> [wm EXCEPT !.spawn_timer = 0,
                                         !.enemy_index = wm.enemy_index + 1],
                       spawn |-> wm.waves[wm.current_wave + 1][wm.enemy_index + 1]]
                 ELSE [wm |-> [wm EXCEPT !.spawn_timer = 0,
                                         !.enemy_index = 0,
                                         !.active = FALSE,
                                         !.current_wave = wm.current_wave + 1],
                       spawn |-> NoType]
            ELSE [wm |-> [wm EXCEPT !.spawn_timer = timer], spawn |-> NoType]

\* WaveManager.update with > for >= in the test of the spawn timer.
WMUpdateLate(wm) ==
    IF ~wm.active THEN [wm |-> wm, spawn |-> NoType]
    ELSE LET timer == wm.spawn_timer + 1
         IN IF timer > SpawnDelay
            THEN IF wm.enemy_index < Len(wm.waves[wm.current_wave + 1])
                 THEN [wm |-> [wm EXCEPT !.spawn_timer = 0,
                                         !.enemy_index = wm.enemy_index + 1],
                       spawn |-> wm.waves[wm.current_wave + 1][wm.enemy_index + 1]]
                 ELSE [wm |-> [wm EXCEPT !.spawn_timer = 0,
                                         !.active = FALSE,
                                         !.current_wave = wm.current_wave + 1],
                       spawn |-> NoType]
            ELSE [wm |-> [wm EXCEPT !.spawn_timer = timer], spawn |-> NoType]

\* WaveManager.update ending the wave in the call that creates its last enemy.
WMUpdateEndsAtLastSpawn(wm) ==
    IF ~wm.active THEN [wm |-> wm, spawn |-> NoType]
    ELSE LET timer == wm.spawn_timer + 1
             wave == wm.waves[wm.current_wave + 1]
         IN IF timer >= SpawnDelay
            THEN IF wm.enemy_index + 1 < Len(wave)
                 THEN [wm |-> [wm EXCEPT !.spawn_timer = 0,
                                         !.enemy_index = wm.enemy_index + 1],
                       spawn |-> wave[wm.enemy_index + 1]]
                 ELSE [wm |-> [wm EXCEPT !.spawn_timer = 0,
                                         !.enemy_index = wm.enemy_index + 1,
                                         !.active = FALSE,
                                         !.current_wave = wm.current_wave + 1],
                       spawn |-> wave[wm.enemy_index + 1]]
            ELSE [wm |-> [wm EXCEPT !.spawn_timer = timer], spawn |-> NoType]

\* update that does not reset the timer when it creates an enemy.
WMUpdateKeepsTimer(wm) ==
    IF ~wm.active THEN [wm |-> wm, spawn |-> NoType]
    ELSE LET timer == wm.spawn_timer + 1
         IN IF timer >= SpawnDelay
            THEN IF wm.enemy_index < Len(wm.waves[wm.current_wave + 1])
                 THEN [wm |-> [wm EXCEPT !.spawn_timer = timer,
                                         !.enemy_index = wm.enemy_index + 1],
                       spawn |-> wm.waves[wm.current_wave + 1][wm.enemy_index + 1]]
                 ELSE [wm |-> [wm EXCEPT !.spawn_timer = 0,
                                         !.active = FALSE,
                                         !.current_wave = wm.current_wave + 1],
                       spawn |-> NoType]
            ELSE [wm |-> [wm EXCEPT !.spawn_timer = timer], spawn |-> NoType]

\* WaveManager.update: the manager after the call and the kind of the enemy
\* it creates (NoType when it returns None).  Python indexes from 0.
WMUpdate(wm) ==
    IF ~wm.active THEN [wm |-> wm, spawn |-> NoType]
    ELSE LET timer == wm.spawn_timer + 1
         IN IF timer >= SpawnDelay
            THEN IF wm.enemy_index < Len(wm.waves[wm.current_wave + 1])
                 THEN [wm |-> [wm EXCEPT !.spawn_timer = 0,
                                         !.enemy_index = wm.enemy_index + 1],
                       spawn |-> wm.waves[wm.current_wave + 1][wm.enemy_index + 1]]
                 ELSE [wm |-> [wm EXCEPT !.spawn_timer = 0,
                                         !.active = FALSE,
                                         !.current_wave = wm.current_wave + 1],
                       spawn |-> NoType]
            ELSE [wm |-> [wm EXCEPT !.spawn_timer = timer], spawn |-> NoType]

\* is_finished one wave early.
IsFinishedEarly(wm) == wm.current_wave >= Len(wm.waves) - 1 /\ ~wm.active

\* is_finished with ">" for ">=": never true, the index stops at the number
\* of waves.
IsFinishedStrict(wm) == wm.current_wave > Len(wm.waves) /\ ~wm.active

\* WaveManager.is_finished
IsFinished(wm) == wm.current_wave >= Len(wm.waves) /\ ~wm.active

-----------------------------------------------------------------------------
(* TowerDefenseGame: placement *)

\* The corner of the cell instead of its centre.
GetGridCorner(pos) ==
    << (pos[1] \div GRID_SIZE) * GRID_SIZE, (pos[2] \div GRID_SIZE) * GRID_SIZE >>

\* get_grid_position; Python's // and \div both round down.
GetGridPosition(pos) ==
    << (pos[1] \div GRID_SIZE) * GRID_SIZE + GRID_SIZE \div 2,
       (pos[2] \div GRID_SIZE) * GRID_SIZE + GRID_SIZE \div 2 >>

\* is_position_valid without the tests x < 0 and y < 0.
IsPositionValidNoLowerEdge(pos, p, ts) ==
    /\ ~(pos[1] >= SCREEN_WIDTH \/ pos[2] >= SCREEN_HEIGHT)
    /\ \A i \in 1..Len(p) :
          ~(Dist2(pos[1], pos[2], p[i][1], p[i][2]) < Sq(PathBuffer))
    /\ \A i \in 1..Len(ts) :
          ~(Dist2(pos[1], pos[2], ts[i].x, ts[i].y) < Sq(TowerBuffer))

\* is_position_valid without the loop over the towers.
IsPositionValidOffPath(pos, p, ts) ==
    /\ ~(pos[1] < 0 \/ pos[1] >= SCREEN_WIDTH \/ pos[2] < 0 \/ pos[2] >= SCREEN_HEIGHT)
    /\ \A i \in 1..Len(p) :
          ~(Dist2(pos[1], pos[2], p[i][1], p[i][2]) < Sq(PathBuffer))

\* is_position_valid: on screen, at least PathBuffer from every waypoint and
\* at least TowerBuffer from every tower.
IsPositionValid(pos, p, ts) ==
    /\ ~(pos[1] < 0 \/ pos[1] >= SCREEN_WIDTH \/ pos[2] < 0 \/ pos[2] >= SCREEN_HEIGHT)
    /\ \A i \in 1..Len(p) :
          ~(Dist2(pos[1], pos[2], p[i][1], p[i][2]) < Sq(PathBuffer))
    /\ \A i \in 1..Len(ts) :
          ~(Dist2(pos[1], pos[2], ts[i].x, ts[i].y) < Sq(TowerBuffer))

\* select_tower's loop: the id of the first tower less than SelectRadius from
\* the click, or None.
TowerAt(pos, ts) ==
    IF \E i \in 1..Len(ts) : Dist2(pos[1], pos[2], ts[i].x, ts[i].y) < Sq(SelectRadius)
    THEN LET i == CHOOSE j \in 1..Len(ts) :
                    /\ Dist2(pos[1], pos[2], ts[j].x, ts[j].y) < Sq(SelectRadius)
                    /\ \A k \in 1..(j - 1) :
                          ~(Dist2(pos[1], pos[2], ts[k].x, ts[k].y) < Sq(SelectRadius))
         IN ts[i].id
    ELSE None

\* The index in the list of the tower with identity id (0 when there is none).
IndexOf(ts, id) ==
    IF \E i \in 1..Len(ts) : ts[i].id = id
    THEN CHOOSE i \in 1..Len(ts) : ts[i].id = id
    ELSE 0

\* self.towers.remove(tower)
RemoveTower(ts, id) == SelectSeq(ts, LAMBDA t : t.id # id)

\* place_tower without its test of the money.
CanAffordAnything(m, cost) == TRUE

\* place_tower's test "if self.money < prototype.cost: return False"
CanAfford(m, cost) == ~(m < cost)

\* upgrade_selected_tower with "if self.money > upgrade_cost".
CanUpgradeStrict(m, cost) == m > cost

\* upgrade_selected_tower's test "if self.money >= upgrade_cost"
CanUpgrade(m, cost) == m >= cost

-----------------------------------------------------------------------------
(* TowerDefenseGame.update *)

\* update's loop that lets an enemy that has reached the end stand there.
EnemyFateNoExit(e, reached_end) ==
    IF ~IsAlive(e) THEN "kill" ELSE "stay"

\* update's branches without "elif not enemy.is_alive()": a dead enemy stays
\* in the list.
EnemyFateNoKill(e, reached_end) ==
    IF reached_end THEN "exit" ELSE "stay"

\* What update's loop does with an enemy after enemy.update(): "exit" (a life
\* is lost), "kill" (the bounty is paid) or "stay".  The exit test comes first.
EnemyFate(e, reached_end) ==
    IF reached_end THEN "exit"
    ELSE IF ~IsAlive(e) THEN "kill"
    ELSE "stay"

\* update's loop paying the value also of an enemy that reached the end.
RECURSIVE EnemiesLoopPaysExit(_, _, _)
EnemiesLoopPaysExit(acc, p, i) ==
    IF i > Len(acc.enemies) THEN acc
    ELSE LET r == EnemyUpdate(acc.enemies[i], p)
             fate == EnemyFate(r.enemy, r.reached_end)
             es == [acc.enemies EXCEPT ![i] = r.enemy]
         IN EnemiesLoopPaysExit(
                CASE fate = "exit" ->
                        [acc EXCEPT !.enemies = es,
                                    !.lives = acc.lives - 1,
                                    !.money = acc.money + r.enemy.value,
                                    !.score = acc.score + r.enemy.value,
                                    !.remove = acc.remove \cup {r.enemy.id}]
                  [] fate = "kill" ->
                        [acc EXCEPT !.enemies = es,
                                    !.money = acc.money + r.enemy.value,
                                    !.score = acc.score + r.enemy.value,
                                    !.remove = acc.remove \cup {r.enemy.id}]
                  [] OTHER -> [acc EXCEPT !.enemies = es],
                p, i + 1)

\* update's loop paying for a dead enemy without putting it into
\* enemies_to_remove.
RECURSIVE EnemiesLoopKeepsDead(_, _, _)
EnemiesLoopKeepsDead(acc, p, i) ==
    IF i > Len(acc.enemies) THEN acc
    ELSE LET r == EnemyUpdate(acc.enemies[i], p)
             fate == EnemyFate(r.enemy, r.reached_end)
             es == [acc.enemies EXCEPT ![i] = r.enemy]
         IN EnemiesLoopKeepsDead(
                CASE fate = "exit" ->
                        [acc EXCEPT !.enemies = es,
                                    !.lives = acc.lives - 1,
                                    !.remove = acc.remove \cup {r.enemy.id}]
                  [] fate = "kill" ->
                        [acc EXCEPT !.enemies = es,
                                    !.money = acc.money + r.enemy.value,
                                    !.score = acc.score + r.enemy.value]
                  [] OTHER -> [acc EXCEPT !.enemies = es],
                p, i + 1)

\* update's loop "for enemy in self.enemies" from enemy i on.  acc holds the
\* enemies (updated up to i - 1), the ids in enemies_to_remove, and lives,
\* money and score.
RECURSIVE EnemiesLoop(_, _, _)
EnemiesLoop(acc, p, i) ==
    IF i > Len(acc.enemies) THEN acc
    ELSE LET r == EnemyUpdate(acc.enemies[i], p)
             fate == EnemyFate(r.enemy, r.reached_end)
             es == [acc.enemies EXCEPT ![i] = r.enemy]
         IN EnemiesLoop(
                CASE fate = "exit" ->
                        [acc EXCEPT !.enemies = es,
                                    !.lives = acc.lives - 1,
                                    !.remove = acc.remove \cup {r.enemy.id}]
                  [] fate = "kill" ->
                        [acc EXCEPT !.enemies = es,
                                    !.money = acc.money + r.enemy.value,
                                    !.score = acc.score + r.enemy.value,
                                    !.remove = acc.remove \cup {r.enemy.id}]
                  [] OTHER -> [acc EXCEPT !.enemies = es],
                p, i + 1)

\* update's victory test with "or" for "and".
NextGameStateEither(gs, lv, finished, no_enemies) ==
    LET gs1 == IF lv <= 0 THEN GAME_STATE_GAME_OVER ELSE gs
    IN IF finished \/ no_enemies THEN GAME_STATE_VICTORY ELSE gs1

\* update's two final tests, in the code's order: the game state after them.
NextGameState(gs, lv, finished, no_enemies) ==
    LET gs1 == IF lv <= 0 THEN GAME_STATE_GAME_OVER ELSE gs
    IN IF finished /\ no_enemies THEN GAME_STATE_VICTORY ELSE gs1

\* run's test before update
MayUpdate(gs) == gs = GAME_STATE_PLAYING

-----------------------------------------------------------------------------
(* Inputs *)

\* The mouse positions of the model: two in one cell (140, 220), from which a
\* level-1 basic tower kills a basic enemy; one in the cell (260, 220), from
\* which a sniper kills the fast enemy on the last waypoint; one 20 pixels
\* from the waypoint (200, 300); one left of the screen.
ClickPositions ==
    { <<150, 230>>, <<141, 201>>, <<270, 230>>, <<210, 310>>, <<-10, 300>> }

\* The arguments given to select_tower_type.
TypeKeys == TowerKinds \cup {"unknown"}

\* The last handler called and the value it returned.
Returned(op, ok, pos) == [op |-> op, ok |-> ok]

NoPos == <<0, 0>>

-----------------------------------------------------------------------------
(* The state after TowerDefenseGame.__init__ *)

\* The state after __init__ when the waves added with add_wave are ws.
GameInitWith(ws) ==
    /\ money = StartMoney
    /\ lives = StartLives
    /\ score = 0
    /\ game_state = GAME_STATE_PLAYING
    /\ path = SubSeq(FullPath, 1, PathLen)
    /\ waves = ws
    /\ current_wave = 0
    /\ spawn_timer = 0
    /\ enemy_index = 0
    /\ active = FALSE
    /\ towers = <<>>
    /\ enemies = <<>>
    /\ tower_prototypes = Prototypes
    /\ selected_tower_type = NoType
    /\ dragging_tower = NoType
    /\ selected_tower = None
    /\ next_tower = 1
    /\ next_enemy = 1
    /\ ret = Returned("init", TRUE, NoPos)

\* The state after __init__ with the waves of setup_waves.
GameInit == GameInitWith(SetupWaves)

-----------------------------------------------------------------------------
(* The handlers *)

\* select_tower_type
SelectTowerType(tower_type) ==
    /\ IF tower_type \in DOMAIN tower_prototypes
       THEN /\ selected_tower_type' = tower_type
            /\ selected_tower' = None
            /\ dragging_tower' = Clone(tower_prototypes[tower_type]).name
       ELSE /\ selected_tower_type' = NoType
            /\ dragging_tower' = NoType
            /\ UNCHANGED selected_tower
    /\ ret' = Returned("select_tower_type", tower_type \in DOMAIN tower_prototypes, NoPos)
    /\ UNCHANGED <<money, lives, score, game_state, path, waves, current_wave,
                   spawn_timer, enemy_index, active, towers, enemies,
                   tower_prototypes, next_tower, next_enemy>>

\* place_tower, for the first max_towers towers of a game
PlaceTowerUpTo(pos, max_towers) ==
    /\ next_tower <= max_towers
    /\ LET grid_pos == GetGridPosition(pos)
       IN IF selected_tower_type = NoType \/ dragging_tower = NoType
          THEN /\ ret' = Returned("place_tower", FALSE, pos)
               /\ UNCHANGED <<money, towers, next_tower>>
          ELSE IF ~IsPositionValid(grid_pos, path, towers)
          THEN /\ ret' = Returned("place_tower", FALSE, pos)
               /\ UNCHANGED <<money, towers, next_tower>>
          ELSE LET prototype == tower_prototypes[selected_tower_type]
               IN IF ~CanAfford(money, prototype.cost)
                  THEN /\ ret' = Returned("place_tower", FALSE, pos)
                       /\ UNCHANGED <<money, towers, next_tower>>
                  ELSE LET new_tower ==
                               [Clone(prototype) EXCEPT
                                    !.id = next_tower,
                                    !.x = grid_pos[1], !.y = grid_pos[2]]
                       IN /\ towers' = Append(towers, new_tower)
                          /\ money' = money - new_tower.cost
                          /\ next_tower' = next_tower + 1
                          /\ ret' = Returned("place_tower", TRUE, pos)
    /\ UNCHANGED <<lives, score, game_state, path, waves, current_wave,
                   spawn_timer, enemy_index, active, enemies,
                   tower_prototypes, selected_tower_type, dragging_tower,
                   selected_tower, next_enemy>>

PlaceTower(pos) == PlaceTowerUpTo(pos, MaxTowers)

\* select_tower
SelectTower(pos) ==
    /\ LET id == TowerAt(pos, towers)
       IN IF id # None
          THEN /\ selected_tower' = id
               /\ selected_tower_type' = NoType
               /\ dragging_tower' = NoType
               /\ ret' = Returned("select_tower", TRUE, pos)
          ELSE /\ selected_tower' = None
               /\ ret' = Returned("select_tower", FALSE, pos)
               /\ UNCHANGED <<selected_tower_type, dragging_tower>>
    /\ UNCHANGED <<money, lives, score, game_state, path, waves, current_wave,
                   spawn_timer, enemy_index, active, towers, enemies,
                   tower_prototypes, next_tower, next_enemy>>

\* upgrade_selected_tower (the return value of Tower.upgrade is dropped)
UpgradeSelectedTower ==
    /\ selected_tower # None => towers[IndexOf(towers, selected_tower)].level < MaxLevel
    /\ IF selected_tower = None
       THEN /\ ret' = Returned("upgrade_selected_tower", FALSE, NoPos)
            /\ UNCHANGED <<money, towers>>
       ELSE LET i == IndexOf(towers, selected_tower)
                upgrade_cost == towers[i].cost \div 2
            IN IF CanUpgrade(money, upgrade_cost)
               THEN /\ money' = money - upgrade_cost
                    /\ towers' = [towers EXCEPT ![i] = Upgrade(towers[i])]
                    /\ ret' = Returned("upgrade_selected_tower", TRUE, NoPos)
               ELSE /\ ret' = Returned("upgrade_selected_tower", FALSE, NoPos)
                    /\ UNCHANGED <<money, towers>>
    /\ UNCHANGED <<lives, score, game_state, path, waves, current_wave,
                   spawn_timer, enemy_index, active, enemies,
                   tower_prototypes, selected_tower_type, dragging_tower,
                   selected_tower, next_tower, next_enemy>>

\* sell_selected_tower
SellSelectedTower ==
    /\ IF selected_tower = None
       THEN /\ ret' = Returned("sell_selected_tower", FALSE, NoPos)
            /\ UNCHANGED <<money, towers, selected_tower>>
       ELSE LET i == IndexOf(towers, selected_tower)
            IN /\ money' = money + SellValue(towers[i])
               /\ towers' = RemoveTower(towers, selected_tower)
               /\ selected_tower' = None
               /\ ret' = Returned("sell_selected_tower", TRUE, NoPos)
    /\ UNCHANGED <<lives, score, game_state, path, waves, current_wave,
                   spawn_timer, enemy_index, active, enemies,
                   tower_prototypes, selected_tower_type, dragging_tower,
                   next_tower, next_enemy>>

\* start_wave putting a game that has ended back into play.
StartWaveResumes ==
    /\ LET r == IF ~active THEN WMStartWave(WaveManager)
                ELSE [wm |-> WaveManager, ok |-> FALSE]
       IN /\ active' = r.wm.active
          /\ enemy_index' = r.wm.enemy_index
          /\ spawn_timer' = r.wm.spawn_timer
          /\ current_wave' = r.wm.current_wave
          /\ waves' = r.wm.waves
          /\ ret' = Returned("start_wave", r.ok, NoPos)
    /\ game_state' = GAME_STATE_PLAYING
    /\ UNCHANGED <<money, lives, score, path, towers, enemies,
                   tower_prototypes, selected_tower_type, dragging_tower,
                   selected_tower, next_tower, next_enemy>>

\* TowerDefenseGame.start_wave
StartWave ==
    /\ LET r == IF ~active THEN WMStartWave(WaveManager)
                ELSE [wm |-> WaveManager, ok |-> FALSE]
       IN /\ active' = r.wm.active
          /\ enemy_index' = r.wm.enemy_index
          /\ spawn_timer' = r.wm.spawn_timer
          /\ current_wave' = r.wm.current_wave
          /\ waves' = r.wm.waves
          /\ ret' = Returned("start_wave", r.ok, NoPos)
    /\ UNCHANGED <<money, lives, score, game_state, path, towers, enemies,
                   tower_prototypes, selected_tower_type, dragging_tower,
                   selected_tower, next_tower, next_enemy>>

\* process_events on K_ESCAPE
Deselect ==
    /\ selected_tower_type' = NoType
    /\ selected_tower' = None
    /\ dragging_tower' = NoType
    /\ ret' = Returned("deselect", TRUE, NoPos)
    /\ UNCHANGED <<money, lives, score, game_state, path, waves, current_wave,
                   spawn_timer, enemy_index, active, towers, enemies,
                   tower_prototypes, next_tower, next_enemy>>

\* What one call of update makes of the game: the fields it assigns.
UpdateOutcome ==
    LET w == WMUpdate(WaveManager)
        spawned == IF w.spawn # NoType
                   THEN Append(enemies, CreateEnemy(next_enemy, w.spawn, path))
                   ELSE enemies
        lp == EnemiesLoop([enemies |-> spawned, remove |-> {},
                           lives |-> lives, money |-> money, score |-> score],
                          path, 1)
        kept == SelectSeq(lp.enemies, LAMBDA e : e.id \notin lp.remove)
        at == AttackAll(towers, kept, 1)
    IN [current_wave |-> w.wm.current_wave,
        spawn_timer |-> w.wm.spawn_timer,
        enemy_index |-> w.wm.enemy_index,
        active |-> w.wm.active,
        waves |-> w.wm.waves,
        next_enemy |-> IF w.spawn # NoType THEN next_enemy + 1 ELSE next_enemy,
        lives |-> lp.lives,
        money |-> lp.money,
        score |-> lp.score,
        towers |-> at.towers,
        enemies |-> at.enemies,
        game_state |-> NextGameState(game_state, lp.lives,
                                     IsFinished(w.wm), at.enemies = <<>>),
        ret |-> Returned("update", TRUE, NoPos)]

\* One frame of run: update, when the game is being played.
Update ==
    /\ MayUpdate(game_state)
    /\ LET u == UpdateOutcome
       IN /\ current_wave' = u.current_wave
          /\ spawn_timer' = u.spawn_timer
          /\ enemy_index' = u.enemy_index
          /\ active' = u.active
          /\ waves' = u.waves
          /\ next_enemy' = u.next_enemy
          /\ lives' = u.lives
          /\ money' = u.money
          /\ score' = u.score
          /\ towers' = u.towers
          /\ enemies' = u.enemies
          /\ game_state' = u.game_state
          /\ ret' = u.ret
    /\ UNCHANGED <<path, tower_prototypes, selected_tower_type,
                   dragging_tower, selected_tower, next_tower>>

\* update is called and changes the game or the record of the last call:
\* the frames in which the step Update is not a stuttering step.
UpdateMoves ==
    /\ MayUpdate(game_state)
    /\ UpdateOutcome # [current_wave |-> current_wave,
        spawn_timer |-> spawn_timer,
        enemy_index |-> enemy_index,
        active |-> active,
        waves |-> waves,
        next_enemy |-> next_enemy,
        lives |-> lives,
        money |-> money,
        score |-> score,
        towers |-> towers,
        enemies |-> enemies,
        game_state |-> game_state,
        ret |-> ret]

-----------------------------------------------------------------------------
(* The frames of run: process_events, then update *)

\* The frames in which the model delivers tower events (select, place,
\* upgrade, sell, deselect): before the first wave is started and after the
\* game has ended.
ShopFrame ==
    \/ game_state # GAME_STATE_PLAYING
    \/ current_wave = 0 /\ ~active

\* The frames in which the model delivers K_n (start_wave): with nothing
\* selected, while the field is empty and no wave is active, in the frames of
\* an active wave in which the spawn timer is at 0, and after the game has
\* ended.
WaveFrame ==
    \/ game_state # GAME_STATE_PLAYING
    \/ /\ selected_tower_type = NoType
       /\ selected_tower = None
       /\ \/ ~active /\ enemies = <<>>
          \/ active /\ spawn_timer = 0

-----
(* simpletower.py: CannonTower *)

\* CannonTower.__init__
CannonTower(x, y) ==
    [x |-> x, y |-> y, attack_radius |-> 200, damage |-> 5,
     attack_cooldown |-> 60, current_cooldown |-> 0,
     explosion_radius |-> 50, explosion |-> <<>>,
     explosion_duration |-> 5, current_explosion |-> 0]

\* simpletower.py's Enemy.__init__ (health 10) at a given place; the speed
\* and the drawing fields play no part in CannonTower.update.
Foe(pos) == [x |-> pos[1], y |-> pos[2], health |-> 10]

\* CannonTower.update's search from enemy i on: the index of the closest
\* enemy within attack_radius (0 for None); bestd < 0 stands for
\* float('inf').
RECURSIVE ClosestFrom(_, _, _, _, _)
ClosestFrom(t, es, i, best, bestd) ==
    IF i > Len(es) THEN best
    ELSE LET d == Dist2(es[i].x, es[i].y, t.x, t.y)
         IN IF d <= Sq(t.attack_radius) /\ (bestd < 0 \/ d < bestd)
            THEN ClosestFrom(t, es, i + 1, i, d)
            ELSE ClosestFrom(t, es, i + 1, best, bestd)

\* The blast measured from the tower, over its attack radius.
InBlastOfTower(t, e, cx, cy) == Dist2(e.x, e.y, t.x, t.y) <= Sq(t.attack_radius)

\* "if distance <= self.explosion_radius", around the enemy at (cx, cy)
InBlast(t, e, cx, cy) == Dist2(e.x, e.y, cx, cy) <= Sq(t.explosion_radius)

\* The explosion animation at the head of CannonTower.update.
CannonAnimate(t) ==
    IF t.current_explosion > 0
    THEN IF t.current_explosion - 1 = 0
         THEN [t EXCEPT !.current_explosion = 0, !.explosion = <<>>]
         ELSE [t EXCEPT !.current_explosion = t.current_explosion - 1]
    ELSE t

\* CannonTower.update: the tower and the enemies after the call.
CannonTowerUpdate(t0, es) ==
    LET t == CannonAnimate(t0)
    IN IF t.current_cooldown > 0
       THEN [tower |-> [t EXCEPT !.current_cooldown = t.current_cooldown - 1],
             enemies |-> es]
       ELSE LET c == ClosestFrom(t, es, 1, 0, -1)
            IN IF c # 0
               THEN [tower |-> [t EXCEPT !.explosion = <<es[c].x, es[c].y>>,
                                         !.current_explosion = t.explosion_duration,
                                         !.current_cooldown = t.attack_cooldown],
                     enemies |-> [i \in 1..Len(es) |->
                                     IF InBlast(t, es[i], es[c].x, es[c].y)
                                     THEN [es[i] EXCEPT !.health = es[i].health - t.damage]
                                     ELSE es[i]]]
               ELSE [tower |-> t, enemies |-> es]

-----------------------------------------------------------------------------
(* The units on their own *)

\* At most MaxFoes enemies are given to CannonTower.update and to
\* BomberTower.attack.
MaxFoes == 3

\* Tower.upgrade is called at most MaxUpgrades times on one tower.
MaxUpgrades == 6

\* The places of the enemies around the cannon at (200, 500): in range; in
\* range and 50 from the first; in range at exactly 200; out of range, 10
\* from the third; out of range, exactly 50 from the third; in range, 51
\* from the first and 49 from the third; out of range, 60 from the third.
FoePlaces ==
    { <<200, 400>>, <<250, 400>>, <<200, 300>>, <<200, 290>>, <<200, 250>>,
      <<200, 349>>, <<200, 240>> }

\* The sequences of at most n distinct elements of the set S.
ListsOf(S, n) ==
    UNION { { f \in [1..k -> S] : \A i, j \in 1..k : i # j => f[i] # f[j] } :
            k \in 0..n }

\* The cannon of GameState.__init__, CannonTower(200, 500), before any enemy.
CannonIdle ==
    /\ cannon = CannonTower(200, 500)
    /\ foes = <<>>

\* The cannon of GameState.__init__ with some enemies on the field.
CannonInit ==
    /\ cannon = CannonTower(200, 500)
    /\ foes \in { [i \in DOMAIN f |-> Foe(f[i])] : f \in ListsOf(FoePlaces, MaxFoes) }

\* tower.update(self.enemies) in GameState.update.  GameState.update removes
\* an enemy whose health is <= 0 in the frame it is hit in, so the cannon is
\* never updated with one.
CannonUpdate ==
    /\ \A i \in 1..Len(foes) : foes[i].health > 0
    /\ LET r == CannonTowerUpdate(cannon, foes)
       IN /\ cannon' = r.tower
          /\ foes' = r.enemies
    /\ UNCHANGED <<bomber, crowd, unit, sentry, raiders>>

\* The places on the path, <<x, y, path_index>> in pixels, of the enemies
\* around a bomber placed in the cell (140, 220), whose radius is 80: in
\* range at exactly 80; in range at 60; in range, 50 and 100 from each
\* other; out of range, 10 from the third; out of range, 40 from the first.
CrowdPlaces ==
    { <<140, 300, 0>>, <<200, 220, 1>>, <<200, 270, 1>>, <<200, 170, 1>>,
      <<200, 280, 1>>, <<100, 300, 0>> }

\* A basic enemy of EnemyFactory.create_enemy that has walked to a place.
EnemyAt(id, place) ==
    [CreateEnemy(id, "basic", FullPath) EXCEPT
        !.x = Scale * place[1], !.y = Scale * place[2], !.path_index = place[3]]

\* place_tower's clone of the bomber prototype in the cell (140, 220).
PlacedBomber == [Clone(BomberTower) EXCEPT !.id = 1, !.x = 140, !.y = 220]

BomberIdle ==
    /\ bomber = PlacedBomber
    /\ crowd = <<>>

BomberInit ==
    /\ bomber = PlacedBomber
    /\ crowd \in { [i \in DOMAIN f |-> EnemyAt(i, f[i])] :
                     f \in ListsOf(CrowdPlaces, MaxFoes) }

\* tower.attack(self.enemies) in TowerDefenseGame.update, for the bomber.
\* update removes the enemies whose health is <= 0 before the towers attack.
BomberUpdate ==
    /\ \A i \in 1..Len(crowd) : IsAlive(crowd[i])
    /\ LET r == Attack(bomber, crowd)
       IN /\ bomber' = r.tower
          /\ crowd' = r.enemies
    /\ UNCHANGED <<cannon, foes, unit, sentry, raiders>>

\* The arguments given to Tower.__init__ for the towers that are upgraded:
\* those of the three prototypes among them.
UnitDamages == {1, 2, 3, 10, 15, 30}
UnitCooldowns == {10, 11, 12, 13, 14, 30, 45, 60}
UnitRadii == {80, 100, 200}

UnitIdle == unit = <<>>

\* A tower fresh from Tower.__init__.
UnitInit ==
    unit \in { <<Tower("unit", r, d, c, 50)>> :
                 r \in UnitRadii, d \in UnitDamages, c \in UnitCooldowns }

\* tower.upgrade(): unit holds the tower as it was after each call.
UpgradeCall ==
    /\ unit # <<>>
    /\ Len(unit) <= MaxUpgrades
    /\ unit' = Append(unit, Upgrade(unit[Len(unit)]))
    /\ UNCHANGED <<cannon, foes, bomber, crowd, sentry, raiders>>

\* Where the enemies stand that are given to the basic tower in the cell
\* (140, 220), as <<x, y, path_index>>: at 100, the radius of the tower, at
\* 60, two at the square root of 6100, and two beyond the radius, at the
\* square roots of 12800 and of 25920.
RaiderPlaces ==
    { <<200, 300, 1>>, <<200, 220, 1>>, <<200, 270, 1>>, <<200, 170, 1>>,
      <<60, 300, 0>>, <<0, 300, 0>> }

\* place_tower's clone of the basic prototype in the cell (140, 220).
PlacedBasic == [Clone(BasicTower) EXCEPT !.id = 1, !.x = 140, !.y = 220]

SentryIdle ==
    /\ sentry = PlacedBasic
    /\ raiders = <<>>

\* The basic tower, as placed or upgraded once, with some enemies on the
\* field.
SentryInit ==
    /\ sentry \in {PlacedBasic, Upgrade(PlacedBasic)}
    /\ raiders \in { [i \in DOMAIN f |-> EnemyAt(i, f[i])] :
                       f \in ListsOf(RaiderPlaces, MaxFoes) }

\* tower.attack(self.enemies) in TowerDefenseGame.update, for the basic
\* tower.  update removes the enemies whose health is <= 0 before the towers
\* attack.
SentryAttack ==
    /\ \A i \in 1..Len(raiders) : IsAlive(raiders[i])
    /\ LET r == Attack(sentry, raiders)
       IN /\ sentry' = r.tower
          /\ raiders' = r.enemies
    /\ UNCHANGED <<cannon, foes, bomber, crowd, unit>>

\* tower.upgrade() in upgrade_selected_tower, between two updates, for the
\* basic tower.
SentryUpgrade ==
    /\ sentry.level < MaxLevel
    /\ sentry' = Upgrade(sentry)
    /\ UNCHANGED <<cannon, foes, bomber, crowd, unit, raiders>>

\* The lists of enemies given to add_wave: none, one, and two enemies.
WaveChoices == { <<>>, <<"basic">>, <<"tank", "fast">> }

\* WaveManager.add_wave
AddWave(new_wave) ==
    /\ Len(waves) < MaxWaves
    /\ waves' = Append(waves, new_wave)
    /\ ret' = Returned("add_wave", TRUE, NoPos)
    /\ UNCHANGED <<money, lives, score, game_state, path, current_wave,
                   spawn_timer, enemy_index, active, towers, enemies,
                   tower_prototypes, selected_tower_type, dragging_tower,
                   selected_tower, next_tower, next_enemy>>

\* WaveManager.update, called on its own: ret.ok tells whether it returned
\* an enemy.
WaveTick ==
    /\ LET w == WMUpdate(WaveManager)
       IN /\ current_wave' = w.wm.current_wave
          /\ spawn_timer' = w.wm.spawn_timer
          /\ enemy_index' = w.wm.enemy_index
          /\ active' = w.wm.active
          /\ waves' = w.wm.waves
          /\ ret' = Returned("wave_manager.update", w.spawn # NoType, NoPos)
    /\ UNCHANGED <<money, lives, score, game_state, path, towers, enemies,
                   tower_prototypes, selected_tower_type, dragging_tower,
                   selected_tower, next_tower, next_enemy>>

-----------------------------------------------------------------------------
(* Specifications *)

UnitsIdle == CannonIdle /\ BomberIdle /\ UnitIdle /\ SentryIdle

Init == GameInit /\ UnitsIdle

Next ==
    \/ ShopFrame /\ UNCHANGED unit_vars
          /\ \E tower_type \in TypeKeys : SelectTowerType(tower_type)
    \/ ShopFrame /\ UNCHANGED unit_vars
          /\ \E pos \in ClickPositions : PlaceTower(pos)
    \/ ShopFrame /\ UNCHANGED unit_vars
          /\ \E pos \in ClickPositions : SelectTower(pos)
    \/ ShopFrame /\ UNCHANGED unit_vars /\ UpgradeSelectedTower
    \/ ShopFrame /\ UNCHANGED unit_vars /\ SellSelectedTower
    \/ ShopFrame /\ UNCHANGED unit_vars /\ Deselect
    \/ WaveFrame /\ UNCHANGED unit_vars /\ StartWave
    \/ UNCHANGED unit_vars /\ Update

\* The game of tower.py.
Spec == Init /\ [][Next]_vars

InitArea ==
    /\ GameInit
    /\ UnitIdle
    /\ SentryIdle
    /\ \/ CannonInit /\ BomberIdle
       \/ CannonIdle /\ BomberInit

NextArea ==
    \/ CannonUpdate /\ UNCHANGED game_vars
    \/ BomberUpdate /\ UNCHANGED game_vars

\* The two area-of-effect towers, updated frame after frame.
SpecArea == InitArea /\ [][NextArea]_vars

InitUpgrade == GameInit /\ CannonIdle /\ BomberIdle /\ SentryIdle /\ UnitInit

NextUpgrade == UpgradeCall /\ UNCHANGED game_vars

\* A tower upgraded again and again.
SpecUpgrade == InitUpgrade /\ [][NextUpgrade]_vars

\* A schedule of one wave of one basic enemy, added with add_wave.
SingleWave == << <<"basic">> >>

InitSingle == GameInitWith(SingleWave) /\ UnitsIdle

InitTarget ==
    /\ GameInit
    /\ CannonIdle
    /\ UnitIdle
    /\ \/ SentryInit /\ BomberIdle
       \/ SentryIdle /\ BomberInit

NextTarget ==
    \/ SentryAttack /\ UNCHANGED game_vars
    \/ SentryUpgrade /\ UNCHANGED game_vars
    \/ BomberUpdate /\ UNCHANGED game_vars

\* A basic tower, upgraded now and then, or a bomber tower attacking, frame
\* after frame, enemies that stand still.
SpecTarget == InitTarget /\ [][NextTarget]_vars

\* A schedule with more enemies in the first wave than the player has lives,
\* added with add_wave.
RunWaves == << <<"basic", "fast", "basic">>, <<"tank">> >>

InitRun == GameInitWith(RunWaves) /\ UnitsIdle

\* The events of a game in which towers are bought and placed before the
\* first wave and after the end of the game, and never upgraded or sold.
NextRun ==
    \/ ShopFrame /\ UNCHANGED unit_vars
          /\ \E tower_type \in TypeKeys : SelectTowerType(tower_type)
    \/ ShopFrame /\ UNCHANGED unit_vars
          /\ \E pos \in ClickPositions : PlaceTower(pos)
    \/ WaveFrame /\ UNCHANGED unit_vars /\ StartWave
    \/ UNCHANGED unit_vars /\ Update

\* The game of tower.py with the loop of run: as long as the game is being
\* played, every frame calls update.  The condition is weak fairness of
\* Update, WF_vars(UNCHANGED unit_vars /\ Update), written out with
\* UpdateMoves for ENABLED <<UNCHANGED unit_vars /\ Update>>_vars.
FairSpec ==
    /\ InitRun
    /\ [][NextRun]_vars
    /\ \/ []<>(~UpdateMoves)
       \/ []<><<UNCHANGED unit_vars /\ Update>>_vars

\* WaveManager.__init__: no waves yet.
InitWaves == GameInitWith(<<>>) /\ UnitsIdle

NextWaves ==
    \/ UNCHANGED unit_vars /\ \E new_wave \in WaveChoices : AddWave(new_wave)
    \/ UNCHANGED unit_vars /\ StartWave
    \/ UNCHANGED unit_vars /\ WaveTick

\* A wave manager to which waves are added, whose waves are started and
\* which is updated, in any order.
SpecWaves == InitWaves /\ [][NextWaves]_vars

\* The game of tower.py with one wave of one basic enemy.
SpecSingle == InitSingle /\ [][Next]_vars

\* Clicks into every cell of the grid around the first segments of the path:
\* columns 0 to 6 and rows 3 to 8, the cell centres (20..260, 140..340).
GridClicks == { <<GRID_SIZE * c + 5, GRID_SIZE * r + 5>> : c \in 0..6, r \in 3..8 }

NextShop ==
    \/ UNCHANGED unit_vars /\ \E tower_type \in TypeKeys : SelectTowerType(tower_type)
    \/ UNCHANGED unit_vars /\ \E pos \in GridClicks : PlaceTower(pos)
    \/ UNCHANGED unit_vars /\ \E pos \in GridClicks : SelectTower(pos)
    \/ UNCHANGED unit_vars /\ SellSelectedTower

\* The shop of tower.py before the first wave, with clicks all over the grid.
SpecShop == Init /\ [][NextShop]_vars

\* Clicks at the four corners of the screen, inside it and one pixel or one
\* cell outside it.
EdgeClicks ==
    { <<0, 0>>, <<799, 0>>, <<0, 599>>, <<799, 599>>,
      <<-1, 0>>, <<0, -1>>, <<800, 599>>, <<799, 600>>, <<-41, -41>>, <<840, 640>> }

NextEdge ==
    \/ UNCHANGED unit_vars /\ \E tower_type \in TypeKeys : SelectTowerType(tower_type)
    \/ UNCHANGED unit_vars /\ \E pos \in EdgeClicks : PlaceTowerUpTo(pos, LotTowers)
    \/ UNCHANGED unit_vars /\ \E pos \in EdgeClicks : SelectTower(pos)
    \/ UNCHANGED unit_vars /\ SellSelectedTower

\* The shop of tower.py with clicks on and beyond the edges of the screen.
SpecEdge == Init /\ [][NextEdge]_vars

\* Clicks into three neighbouring cells, (140,220) twice, (180,220) and
\* (140,260), for a game in which up to LotTowers towers are placed.
LotClicks == { <<150, 230>>, <<141, 201>>, <<190, 230>>, <<150, 270>> }

NextLot ==
    \/ UNCHANGED unit_vars /\ \E tower_type \in TypeKeys : SelectTowerType(tower_type)
    \/ UNCHANGED unit_vars /\ \E pos \in LotClicks : PlaceTowerUpTo(pos, LotTowers)
    \/ UNCHANGED unit_vars /\ \E pos \in LotClicks : SelectTower(pos)
    \/ UNCHANGED unit_vars /\ SellSelectedTower

\* The shop of tower.py on a small lot: towers are placed side by side, sold
\* and placed again.
SpecLot == Init /\ [][NextLot]_vars

-----------------------------------------------------------------------------
(* Properties *)

\* C1: in every reachable state, after any sequence of place_tower,
\* upgrade_selected_tower, sell_selected_tower, start_wave and update, the
\* money is at least 0.
C1_MoneyNonNegative == money >= 0

\* An upgrade has been refused for want of money, and the money is all spent.
C1_Witness ==
    /\ ret.op = "upgrade_selected_tower" /\ ~ret.ok
    /\ selected_tower # None
    /\ money = 0

\* C2: every call of place_tower either succeeds, takes exactly the cost of
\* the selected prototype from the money and appends exactly one tower, a
\* copy of that prototype at the centre of the cell of the click; or is
\* refused (no or unknown tower type selected, invalid position, or money
\* below the cost) and leaves the money and the towers as they were.
C2_PlaceTowerEffect ==
    [][\A pos \in ClickPositions :
          PlaceTower(pos) =>
             LET refused ==
                     \/ selected_tower_type = NoType
                     \/ ~IsPositionValid(GetGridPosition(pos), path, towers)
                     \/ money < Prototypes[selected_tower_type].cost
             IN IF refused
                THEN ~ret'.ok /\ money' = money /\ towers' = towers
                ELSE /\ ret'.ok
                     /\ money' = money - Prototypes[selected_tower_type].cost
                     /\ Len(towers') = Len(towers) + 1
                     /\ SubSeq(towers', 1, Len(towers)) = towers
                     /\ LET t == towers'[Len(towers')]
                        IN /\ t.name = selected_tower_type
                           /\ t.x % GRID_SIZE = 20 /\ t.y % GRID_SIZE = 20
                           /\ t.x - 20 <= pos[1] /\ pos[1] < t.x + 20
                           /\ t.y - 20 <= pos[2] /\ pos[2] < t.y + 20]_vars

\* A second tower has just been placed.
C2_Witness ==
    /\ ret.op = "place_tower" /\ ret.ok
    /\ Len(towers) = 2

\* C3: each call of Tower.upgrade sets level to level + 1, damage to
\* floor(1.5 * damage), radius to radius + 20 and cooldown to
\* max(10, floor(0.8 * cooldown)); a tower of damage 10, radius 100 and
\* cooldown 30 has 15, 120 and 24 after one upgrade and 22, 140 and 19
\* after a second.
C3_UpgradeStats ==
    /\ \A k \in 1..(Len(unit) - 1) :
          LET a == unit[k]
              b == unit[k + 1]
          IN /\ b.level = a.level + 1
             /\ 2 * b.damage <= 3 * a.damage /\ 3 * a.damage < 2 * b.damage + 2
             /\ b.radius = a.radius + 20
             /\ IF 4 * a.cooldown < 55
                THEN b.cooldown = 10
                ELSE 5 * b.cooldown <= 4 * a.cooldown
                        /\ 4 * a.cooldown < 5 * b.cooldown + 5
    /\ (unit # <<>> /\ unit[1].damage = 10 /\ unit[1].radius = 100
            /\ unit[1].cooldown = 30) =>
          /\ Len(unit) >= 2 =>
                unit[2].damage = 15 /\ unit[2].radius = 120 /\ unit[2].cooldown = 24
          /\ Len(unit) >= 3 =>
                unit[3].damage = 22 /\ unit[3].radius = 140 /\ unit[3].cooldown = 19

\* The tower of damage 10, radius 100 and cooldown 30 has been upgraded until
\* the floor of 10 held its cooldown (12 before the call, 9.6 without it).
C3_Witness ==
    /\ Len(unit) >= 6
    /\ unit[1].damage = 10 /\ unit[1].radius = 100 /\ unit[1].cooldown = 30
    /\ unit[3].damage = 22
    /\ unit[5].cooldown = 12 /\ unit[6].cooldown = 10

\* C4: upgrade_selected_tower on a selected tower succeeds exactly when the
\* money is at least floor(cost / 2) of the tower's prototype; it then takes
\* exactly that amount, whatever the tower's level, and upgrades that tower
\* alone; when it fails (too little money, or no tower selected) the money
\* and every tower are as they were.
C4_UpgradeCharge ==
    [][UpgradeSelectedTower =>
          IF selected_tower = None
          THEN ~ret'.ok /\ money' = money /\ towers' = towers
          ELSE LET i == CHOOSE j \in 1..Len(towers) : towers[j].id = selected_tower
                   price == Prototypes[towers[i].name].cost \div 2
               IN IF money >= price
                  THEN /\ ret'.ok
                       /\ money' = money - price
                       /\ Len(towers') = Len(towers)
                       /\ towers'[i].level = towers[i].level + 1
                       /\ \A j \in 1..Len(towers) : j # i => towers'[j] = towers[j]
                  ELSE ~ret'.ok /\ money' = money /\ towers' = towers]_vars

\* A basic tower, bought for 50, has been upgraded twice for 25 each time.
C4_Witness ==
    /\ ret.op = "upgrade_selected_tower" /\ ret.ok
    /\ Len(towers) = 1 /\ towers[1].name = "basic" /\ towers[1].level = 3
    /\ money = 100

\* C5: sell_selected_tower on a selected tower adds exactly
\* floor(0.7 * cost) of the tower's prototype to the money (35 for a cost of
\* 50), whatever the tower's level, and removes that tower and no other,
\* the others unchanged; with no tower selected it changes nothing.
C5_SellRefund ==
    [][SellSelectedTower =>
          IF selected_tower = None
          THEN ~ret'.ok /\ money' = money /\ towers' = towers
          ELSE LET i == CHOOSE j \in 1..Len(towers) : towers[j].id = selected_tower
                   c == Prototypes[towers[i].name].cost
                   refund == money' - money
               IN /\ ret'.ok
                  /\ 10 * refund <= 7 * c /\ 7 * c < 10 * refund + 10
                  /\ c = 50 => refund = 35
                  /\ Len(towers') = Len(towers) - 1
                  /\ \A j \in 1..(i - 1) : towers'[j] = towers[j]
                  /\ \A j \in i..Len(towers') : towers'[j] = towers[j + 1]]_vars

\* Of two basic towers the one upgraded twice has been sold, for 35.
C5_Witness ==
    /\ ret.op = "sell_selected_tower" /\ ret.ok
    /\ next_tower = 3
    /\ Len(towers) = 1 /\ towers[1].name = "basic" /\ towers[1].level = 1
    /\ money = 85

\* C6, as the code has it: when simpletower.py's CannonTower attacks, its
\* primary target is an enemy nearest to it within its attack radius, and
\* its damage is taken from every enemy, the primary included, no further
\* than the explosion radius from the primary's position, an enemy outside
\* the attack radius included, and from no other; when tower.py's
\* BomberTower attacks, which has no explosion radius, its damage is taken
\* from the enemies within its own radius and from no other.
C6_AreaAttack ==
    [][/\ foes # <<>> =>
             LET d2(i) == Dist2(foes[i].x, foes[i].y, cannon.x, cannon.y)
                 near == { i \in 1..Len(foes) : d2(i) <= Sq(cannon.attack_radius) }
             IN IF cannon.current_cooldown = 0 /\ near # {}
                THEN \E p \in near :
                        /\ \A j \in near : d2(p) <= d2(j)
                        /\ \A j \in 1..Len(foes) :
                              foes'[j].health =
                                 IF Dist2(foes[j].x, foes[j].y, foes[p].x, foes[p].y)
                                       <= Sq(cannon.explosion_radius)
                                 THEN foes[j].health - cannon.damage
                                 ELSE foes[j].health
                ELSE foes' = foes
       /\ crowd # <<>> =>
             LET near == { i \in 1..Len(crowd) : InRange(bomber, crowd[i]) }
             IN IF bomber.cooldown_counter <= 0 /\ near # {}
                THEN \A j \in 1..Len(crowd) :
                        crowd'[j].health =
                           IF j \in near
                           THEN crowd[j].health - bomber.damage
                           ELSE crowd[j].health
                ELSE crowd' = crowd]_vars

\* The cannon has hit an enemy that is outside its attack radius, and has
\* left another enemy unhurt.
C6_Witness ==
    /\ \E j \in 1..Len(foes) :
          /\ Dist2(foes[j].x, foes[j].y, cannon.x, cannon.y) > Sq(cannon.attack_radius)
          /\ foes[j].health < Foe(<<0, 0>>).health
    /\ \E j \in 1..Len(foes) : foes[j].health = Foe(<<0, 0>>).health
    /\ cannon.current_cooldown > 0

\* C6 as stated, for the bomber with the explosion radius of 50: when it
\* attacks, its damage is taken from every enemy no further than 50 from the
\* enemy nearest to it within its radius, and from no other.
C6_BomberBlast ==
    [][crowd # <<>> =>
          LET d2(i) == TowerEnemyDist2(bomber, crowd[i])
              near == { i \in 1..Len(crowd) : InRange(bomber, crowd[i]) }
          IN IF bomber.cooldown_counter <= 0 /\ near # {}
             THEN \E p \in near :
                     /\ \A j \in near : d2(p) <= d2(j)
                     /\ \A j \in 1..Len(crowd) :
                           crowd'[j].health =
                              IF Dist2(crowd[j].x, crowd[j].y, crowd[p].x, crowd[p].y)
                                    <= Sq(Scale * CannonTower(0, 0).explosion_radius)
                              THEN crowd[j].health - bomber.damage
                              ELSE crowd[j].health
             ELSE crowd' = crowd]_vars

\* C7, as stated: in a frame of update that begins with an enemy dead
\* (health <= 0) and on the last waypoint, that enemy counts as killed: its
\* value is added to the money and to the score, and no life is lost for it.
C7_KillBeforeExit ==
    [][Update =>
          \A i \in 1..Len(enemies) :
             (~IsAlive(enemies[i]) /\ enemies[i].path_index >= Len(path) - 1) =>
                /\ money' >= money + enemies[i].value
                /\ score' >= score + enemies[i].value
                /\ lives' >= lives - Cardinality({ j \in 1..Len(enemies) :
                                                      /\ j # i
                                                      /\ enemies[j].path_index >= Len(path) - 1 })]_vars

\* C8, as stated: when the lives are 0 or less the game state is game over,
\* never victory or playing.
C8_GameOverWithoutLives == lives <= 0 => game_state = GAME_STATE_GAME_OVER

C10_VictoryOnlyWhenDone ==
    /\ [](game_state = GAME_STATE_VICTORY =>
             /\ current_wave = Len(waves)
             /\ ~active
             /\ enemies = <<>>)
    /\ [][(game_state # GAME_STATE_VICTORY /\ game_state' = GAME_STATE_VICTORY) =>
             /\ ret'.op = "update"
             /\ game_state = GAME_STATE_PLAYING]_vars

\* The game has been won with every life left and every enemy killed.
C10_Witness ==
    /\ game_state = GAME_STATE_VICTORY
    /\ lives = StartLives
    /\ score = 50

\* C11, as stated: once the game state is game over or victory, place_tower,
\* upgrade_selected_tower, sell_selected_tower and start_wave are refused
\* and leave the money, the towers and the wave manager as they were.
C11_NoCommandAfterEnd ==
    [][game_state # GAME_STATE_PLAYING =>
          /\ ret'.op \in {"place_tower", "upgrade_selected_tower",
                          "sell_selected_tower", "start_wave"} => ~ret'.ok
          /\ UNCHANGED <<money, towers, waves, current_wave, enemy_index,
                         spawn_timer, active>>]_vars

\* C12: start_wave fails and leaves active, current_wave, enemy_index and
\* spawn_timer as they were when a wave is active or current_wave is the
\* number of waves; otherwise it succeeds, activates the wave at
\* current_wave and sets enemy_index and spawn_timer to 0.
C12_StartWaveEffect ==
    [][StartWave =>
          IF active \/ current_wave = Len(waves)
          THEN /\ ~ret'.ok
               /\ UNCHANGED <<active, current_wave, enemy_index, spawn_timer, waves>>
          ELSE /\ ret'.ok
               /\ active'
               /\ current_wave' = current_wave /\ waves' = waves
               /\ enemy_index' = 0
               /\ spawn_timer' = 0]_vars

\* The second wave has just been started: enemy_index, 2 at the end of the
\* first wave, is 0 again.
C12_Witness ==
    /\ ret.op = "start_wave" /\ ret.ok
    /\ game_state = GAME_STATE_PLAYING
    /\ current_wave = 1 /\ active /\ enemy_index = 0 /\ spawn_timer = 0

\* C13: in every reachable state is_finished() holds exactly when
\* current_wave is the number of waves and no wave is active; it is false
\* while a wave is still to be started or the current wave is active.
C13_IsFinishedExactly ==
    /\ current_wave \in 0..Len(waves)
    /\ IsFinished(WaveManager) <=> (current_wave = Len(waves) /\ ~active)
    /\ (current_wave < Len(waves) \/ active) => ~IsFinished(WaveManager)

\* Every wave has been spawned out and the game is still being played.
C13_Witness ==
    /\ IsFinished(WaveManager)
    /\ game_state = GAME_STATE_PLAYING
    /\ enemies # <<>>

\* C14, as the code has it: is_finished() becomes true in the update call
\* that marks the last wave inactive, which is the call made spawn_delay
\* (60) frames after the one that created the last enemy of the last wave;
\* until then the wave stays active and spawn_timer counts the frames since
\* that enemy was created.
C14_FinishedAfterSpawnDelay ==
    [][Update =>
          LET last_spawned ==
                  /\ active
                  /\ current_wave = Len(waves) - 1
                  /\ enemy_index = Len(waves[Len(waves)])
              finished_after == current_wave' = Len(waves') /\ ~active'
          IN /\ (~IsFinished(WaveManager) /\ finished_after) <=>
                    (last_spawned /\ spawn_timer = SpawnDelay - 1)
             /\ (last_spawned /\ spawn_timer < SpawnDelay - 1) =>
                    /\ active' /\ ~finished_after
                    /\ spawn_timer' = spawn_timer + 1
             /\ (active /\ current_wave = Len(waves) - 1
                    /\ enemy_index = Len(waves[Len(waves)]) - 1
                    /\ spawn_timer = SpawnDelay - 1) =>
                    /\ active' /\ spawn_timer' = 0
                    /\ enemy_index' = Len(waves[Len(waves)])]_vars

\* is_finished() has just become true, with the tank of the last wave, 60
\* frames old, on the field.
C14_Witness ==
    /\ ret.op = "update"
    /\ IsFinished(WaveManager)
    /\ \E i \in 1..Len(enemies) :
          /\ enemies[i].value = 25
          /\ enemies[i].x = Scale * FullPath[1][1] + (SpawnDelay + 1) * enemies[i].speed

\* C14, as stated: is_finished() is true one frame after the frame that
\* created the last enemy of the last wave.
C14_FinishedOneTickAfterSpawn ==
    [][(/\ Update
        /\ active
        /\ current_wave = Len(waves) - 1
        /\ enemy_index = Len(waves[Len(waves)])
        /\ spawn_timer = 0) =>
          (current_wave' = Len(waves') /\ ~active')]_vars

\* C15: with the money at 200, placing one basic tower (cost 50, damage 10,
\* cooldown 30) leaves 150; when the one basic enemy of the wave (health 50,
\* value 10) has then been attacked 5 times by that tower, it is removed in
\* the next update, the money becomes 160, the score goes up by exactly 10
\* and the lives stay as they were.
C15_EndToEnd ==
    /\ []((/\ next_tower = 2 /\ Len(towers) = 1
           /\ towers[1].name = "basic" /\ towers[1].level = 1) =>
             /\ towers[1].cost = 50 /\ towers[1].damage = 10
             /\ towers[1].cooldown = 30
             /\ \A i \in 1..Len(enemies) :
                   /\ enemies[i].value = 10
                   /\ enemies[i].health \in {50, 40, 30, 20, 10, 0}
             /\ money = 150 + score)
    /\ [][/\ ((\E pos \in ClickPositions : PlaceTower(pos))
                 /\ money = 200 /\ selected_tower_type = "basic" /\ ret'.ok) =>
                money' = 150
          /\ (/\ Update
              /\ next_tower = 2 /\ Len(towers) = 1
              /\ towers[1].name = "basic" /\ towers[1].level = 1
              /\ Len(enemies) = 1
              /\ enemies[1].health = 50 - 5 * towers[1].damage) =>
                /\ enemies' = <<>>
                /\ money = 150 /\ money' = 160
                /\ score' = score + 10
                /\ lives' = lives]_vars

\* The basic enemy has been killed by the one basic tower: money 160, score
\* 10, every life left.
C15_Witness ==
    /\ ret.op = "update"
    /\ next_tower = 2 /\ Len(towers) = 1
    /\ towers[1].name = "basic" /\ towers[1].level = 1
    /\ enemies = <<>>
    /\ money = 160 /\ score = 10 /\ lives = StartLives

\* C16, as the code has it: an update leaves the money, the lives and the
\* score as they were exactly when, at its start, no enemy stands on the
\* last waypoint and no enemy has health <= 0, whatever is in range of the
\* towers; so every update with no enemy on the field does, however often
\* it is repeated.
C16_QuietUpdate ==
    [][Update =>
          (UNCHANGED <<money, lives, score>> <=>
              \A i \in 1..Len(enemies) :
                 /\ enemies[i].health > 0
                 /\ enemies[i].path_index < Len(path) - 1)]_vars

\* An update has just been made with no wave active and an enemy on the
\* field that is in range of no tower.
C16_Witness ==
    /\ ret.op = "update"
    /\ game_state = GAME_STATE_PLAYING
    /\ ~active
    /\ towers # <<>> /\ enemies # <<>>
    /\ \A i \in 1..Len(towers) : \A j \in 1..Len(enemies) :
          ~InRange(towers[i], enemies[j])

\* C16, as stated: an update made while no wave is active and no enemy is
\* in range of any tower, before or after it, leaves the money, the lives
\* and the score as they were.
C16_IdleUpdate ==
    [][(/\ Update
        /\ ~active
        /\ \A i \in 1..Len(towers) : \A j \in 1..Len(enemies) :
              ~InRange(towers[i], enemies[j])
        /\ \A i \in 1..Len(towers') : \A j \in 1..Len(enemies') :
              ~InRange(towers'[i], enemies'[j])) =>
          UNCHANGED <<money, lives, score>>]_vars

\* C17: the value of an enemy is added to the money and to the score at
\* most once, and only in the update that removes it because its health is
\* <= 0: every update adds to the score exactly what it adds to the money,
\* namely the values of the enemies it finds dead before the last waypoint,
\* and removes those enemies, whose identities never come back; no other
\* step changes the score.
C17_BountyOnce ==
    /\ [](\A i, j \in 1..Len(enemies) :
             /\ enemies[i].id < next_enemy
             /\ i # j => enemies[i].id # enemies[j].id)
    /\ [][/\ score' # score => Update
          /\ next_enemy' >= next_enemy
          /\ Update =>
                LET paid(v) == { i \in 1..Len(enemies) :
                                   /\ enemies[i].health <= 0
                                   /\ enemies[i].path_index < Len(path) - 1
                                   /\ enemies[i].value = v }
                    credit == 10 * Cardinality(paid(10)) + 15 * Cardinality(paid(15))
                                 + 25 * Cardinality(paid(25))
                IN /\ score' = score + credit
                   /\ money' = money + credit
                   /\ \A i \in 1..Len(enemies) :
                         enemies[i].health <= 0 =>
                            \A j \in 1..Len(enemies') : enemies'[j].id # enemies[i].id
                   /\ \A j \in 1..Len(enemies') :
                         \/ enemies'[j].id = next_enemy /\ next_enemy' = next_enemy + 1
                         \/ \E i \in 1..Len(enemies) : enemies[i].id = enemies'[j].id]_vars

\* The basic enemy has just been paid for, and the fast enemy is still on
\* the field.
C17_Witness ==
    /\ ret.op = "update"
    /\ score = 10
    /\ \E i \in 1..Len(enemies) : enemies[i].value = 15
    /\ \A i \in 1..Len(enemies) : enemies[i].value # 10

C19_NoDeadAfterUpdate ==
    ret.op = "update" => \A i \in 1..Len(enemies) : enemies[i].health > 0

\* C20: no placed tower lies within PathBuffer (30) of the path of the
\* enemies: every tower is at least PathBuffer from the nearest point of
\* every segment between two consecutive waypoints (the segments are parallel
\* to the axes, so the nearest point has each coordinate of the tower clamped
\* to the segment).
C20_TowersClearOfPath ==
    \A i \in 1..Len(towers) : \A k \in 1..(Len(path) - 1) :
        LET a == path[k]
            b == path[k + 1]
            clamp(v, p, q) == IF v < p /\ v < q THEN (IF p < q THEN p ELSE q)
                              ELSE IF v > p /\ v > q THEN Max(p, q)
                              ELSE v
            nx == clamp(towers[i].x, a[1], b[1])
            ny == clamp(towers[i].y, a[2], b[2])
        IN Dist2(towers[i].x, towers[i].y, nx, ny) >= Sq(PathBuffer)

\* C21: any two distinct placed towers are at least TowerBuffer (40) apart,
\* so no two towers stand in the same grid cell, also when towers have been
\* sold and their cells are built on again.
C21_TowersApart ==
    \A i, j \in 1..Len(towers) :
        i # j => Dist2(towers[i].x, towers[i].y, towers[j].x, towers[j].y)
                    >= Sq(TowerBuffer)

\* C21 happens: after a sale a third tower has just been placed, exactly
\* TowerBuffer from the tower that was kept.
C21_Witness ==
    /\ ret.op = "place_tower" /\ ret.ok
    /\ next_tower = 4
    /\ Len(towers) = 2
    /\ Dist2(towers[1].x, towers[1].y, towers[2].x, towers[2].y) = Sq(TowerBuffer)

\* C22: every placed tower stands at the centre of a grid cell (x mod 40 = 20
\* and y mod 40 = 20) inside the screen (0 <= x < 800, 0 <= y < 600), whatever
\* raw position place_tower was given: a click left of, above, right of or
\* below the screen is refused and places nothing.
C22_OnGridOnScreen ==
    /\ [](\A i \in 1..Len(towers) :
             /\ towers[i].x % GRID_SIZE = GRID_SIZE \div 2
             /\ towers[i].y % GRID_SIZE = GRID_SIZE \div 2
             /\ 0 <= towers[i].x /\ towers[i].x < SCREEN_WIDTH
             /\ 0 <= towers[i].y /\ towers[i].y < SCREEN_HEIGHT)
    /\ [][\A pos \in EdgeClicks :
             (/\ PlaceTowerUpTo(pos, LotTowers)
              /\ \/ pos[1] < 0 \/ pos[1] >= SCREEN_WIDTH
                 \/ pos[2] < 0 \/ pos[2] >= SCREEN_HEIGHT)
                => ~ret'.ok /\ towers' = towers /\ money' = money]_vars

\* C22 happens: towers stand in the first and in the last cell of the screen,
\* and with a tower type selected and money for it the last click was refused.
C22_Witness ==
    /\ ret.op = "place_tower" /\ ~ret.ok
    /\ selected_tower_type # NoType
    /\ money >= 100
    /\ Len(towers) = 2
    /\ \E i \in 1..2 : towers[i].x = 20 /\ towers[i].y = 20
    /\ \E i \in 1..2 : towers[i].x = 780 /\ towers[i].y = 580

\* C23: while a wave is active, update emits its enemies in the order of the
\* wave's list, each entry once, one on every 60th call (the first 60 calls
\* after the wave was started, the timer counting from 0): a call with the
\* timer below 59 emits nothing and adds 1 to the timer; the 60th call sets
\* the timer to 0 and, while entries are left, emits the entry at enemy_index
\* and advances enemy_index by 1; the 60th call that finds the wave exhausted
\* emits nothing, deactivates the wave and adds 1 to current_wave.  No enemy
\* is emitted while no wave is active.
C23_SpawnSchedule ==
    /\ [](/\ spawn_timer \in 0..(SpawnDelay - 1)
          /\ active => /\ current_wave < Len(waves)
                       /\ enemy_index \in 0..Len(waves[current_wave + 1]))
    /\ [][/\ next_enemy' # next_enemy => Update /\ active /\ next_enemy' = next_enemy + 1
          /\ (Update /\ active /\ spawn_timer < SpawnDelay - 1) =>
                /\ next_enemy' = next_enemy
                /\ spawn_timer' = spawn_timer + 1
                /\ UNCHANGED <<active, current_wave, enemy_index>>
          /\ (Update /\ active /\ spawn_timer = SpawnDelay - 1
                 /\ enemy_index < Len(waves[current_wave + 1])) =>
                /\ next_enemy' = next_enemy + 1
                /\ \E i \in 1..Len(enemies') :
                      /\ enemies'[i].id = next_enemy
                      /\ enemies'[i].speed =
                            CreateEnemy(next_enemy, waves[current_wave + 1][enemy_index + 1], path).speed
                      /\ enemies'[i].value =
                            CreateEnemy(next_enemy, waves[current_wave + 1][enemy_index + 1], path).value
                /\ enemy_index' = enemy_index + 1
                /\ spawn_timer' = 0
                /\ UNCHANGED <<active, current_wave>>
          /\ (Update /\ active /\ spawn_timer = SpawnDelay - 1
                 /\ enemy_index = Len(waves[current_wave + 1])) =>
                /\ next_enemy' = next_enemy
                /\ ~active'
                /\ current_wave' = current_wave + 1
                /\ spawn_timer' = 0
          /\ waves' = waves]_vars

\* C23 happens: the second entry of the first wave, a fast enemy, has just
\* been emitted behind the first, a basic enemy that is 60 frames ahead.
C23_Witness ==
    /\ ret.op = "update"
    /\ active /\ current_wave = 0 /\ enemy_index = 2 /\ spawn_timer = 0
    /\ Len(enemies) = 2
    /\ enemies[1].value = 10 /\ enemies[2].value = 15
    /\ enemies[2].id = next_enemy - 1
    /\ enemies[2].path_index = 0
    /\ enemies[2].x = 7

\* C24: current_wave never decreases and never exceeds the number of waves;
\* it changes only by +1, in the update that deactivates an active wave, and
\* every deactivation advances it.  enemy_index never decreases while a wave
\* is active; it decreases only to 0, in a start_wave that starts a new wave.
C24_WaveCounters ==
    /\ [](current_wave \in 0..Len(waves) /\ enemy_index >= 0)
    /\ [][/\ current_wave' # current_wave =>
                /\ Update
                /\ active /\ ~active'
                /\ current_wave' = current_wave + 1
          /\ (active /\ ~active') => current_wave' = current_wave + 1
          /\ (active /\ active') => enemy_index' >= enemy_index
          /\ enemy_index' < enemy_index =>
                /\ StartWave
                /\ ret'.ok
                /\ ~active /\ active'
                /\ current_wave' = current_wave
                /\ enemy_index' = 0]_vars

\* C24 happens: the update that ended the last wave has advanced
\* current_wave to the number of waves and left enemy_index at the length of
\* that wave.
C24_Witness ==
    /\ ret.op = "update"
    /\ ~active
    /\ current_wave = Len(waves)
    /\ enemy_index = Len(waves[Len(waves)])
    /\ spawn_timer = 0
    /\ game_state = GAME_STATE_PLAYING

\* C25: when an update has returned, the target of every tower is either
\* None or an enemy that is still in the list of enemies: the target of a
\* tower is cleared when its enemy is removed.
C25_TargetsAlive ==
    ret.op = "update" =>
        \A i \in 1..Len(towers) :
            \/ towers[i].target = None
            \/ \E j \in 1..Len(enemies) : enemies[j].id = towers[i].target

\* C26: find_target returns, among the enemies whose distance to the tower is
\* at most the tower's current radius, the one at the smallest distance, and
\* among the nearest at equal distance the first in the list; it returns
\* None exactly when no enemy is within the radius, and an enemy at exactly
\* the radius is within it.  (The tower that can attack keeps what
\* find_target returned in target.)
C26_FindTarget ==
    [][(SentryAttack /\ sentry.cooldown_counter <= 0) =>
          LET d2(i) == Sq(Scale * sentry.x - raiders[i].x)
                          + Sq(Scale * sentry.y - raiders[i].y)
              near == { i \in 1..Len(raiders) : d2(i) <= Sq(Scale * sentry.radius) }
          IN IF near = {}
             THEN sentry'.target = None
             ELSE \E i \in near :
                     /\ sentry'.target = raiders[i].id
                     /\ sentry'.target # None
                     /\ \A j \in near : d2(i) <= d2(j)
                     /\ \A j \in near : d2(j) = d2(i) => i <= j]_vars

\* C26 happens: of three enemies, the first at exactly the radius and the
\* other two nearer and at the same distance, the tower has hit the second.
C26_Witness ==
    /\ Len(raiders) = 3
    /\ sentry.radius = 100
    /\ Sq(Scale * sentry.x - raiders[1].x) + Sq(Scale * sentry.y - raiders[1].y)
          = Sq(Scale * sentry.radius)
    /\ Sq(Scale * sentry.x - raiders[2].x) + Sq(Scale * sentry.y - raiders[2].y)
          = Sq(Scale * sentry.x - raiders[3].x) + Sq(Scale * sentry.y - raiders[3].y)
    /\ sentry.target = raiders[2].id
    /\ raiders[2].health = 40
    /\ raiders[1].health = 50 /\ raiders[3].health = 50

\* C27: a tower whose cooldown counter is above 0 when it attacks takes no
\* health from any enemy and its counter goes down by exactly 1; a tower of
\* one target that can attack and finds a target takes exactly its damage
\* from that one enemy and from no other and sets its counter to its current
\* cooldown; health is taken only by a tower whose counter is not above 0.
\* An upgrade between two attacks changes neither the counter nor the
\* enemies.  Two hits of one tower are therefore at least cooldown + 1
\* attacks apart.
C27_CooldownBetweenHits ==
    /\ [][SentryAttack =>
             /\ sentry.cooldown_counter > 0 =>
                   /\ raiders' = raiders
                   /\ sentry' = [sentry EXCEPT !.cooldown_counter = sentry.cooldown_counter - 1]
             /\ (sentry.cooldown_counter <= 0 /\ sentry'.target # None) =>
                   /\ \E i \in 1..Len(raiders) :
                         /\ raiders[i].id = sentry'.target
                         /\ raiders' = [raiders EXCEPT ![i].health = raiders[i].health - sentry.damage]
                   /\ sentry'.cooldown_counter = sentry.cooldown
                   /\ sentry'.cooldown = sentry.cooldown
                   /\ sentry'.damage = sentry.damage
             /\ raiders' # raiders => sentry.cooldown_counter <= 0 /\ sentry'.target # None]_vars
    /\ [][SentryUpgrade =>
             /\ raiders' = raiders
             /\ sentry'.cooldown_counter = sentry.cooldown_counter]_vars

\* C27 happens: the tower has hit its only enemy, waited its cooldown out and
\* has just hit it again.
C27_Witness ==
    /\ Len(raiders) = 1
    /\ sentry.level = 1
    /\ raiders[1].health = 50 - 2 * sentry.damage
    /\ sentry.target = raiders[1].id
    /\ sentry.cooldown_counter = sentry.cooldown

\* C28, as the code has it: a tower whose cooldown counter has reached 0
\* can attack until its next hit: an update in which no enemy is within its
\* radius when it attacks leaves the counter as it is, the update in which
\* an enemy is within its radius sets the counter to the current cooldown,
\* and no other handler changes the counter of a tower.
C28_ReadyUntilHit ==
    [][/\ Update =>
            /\ Len(towers') = Len(towers)
            /\ \A i \in 1..Len(towers) :
                  towers[i].cooldown_counter <= 0 =>
                     IF \E j \in 1..Len(enemies') :
                           Sq(Scale * towers[i].x - enemies'[j].x)
                              + Sq(Scale * towers[i].y - enemies'[j].y)
                                 <= Sq(Scale * towers[i].radius)
                     THEN towers'[i].cooldown_counter = towers[i].cooldown
                     ELSE towers'[i].cooldown_counter = towers[i].cooldown_counter
       /\ ~Update =>
            \A i \in 1..Len(towers) : \A j \in 1..Len(towers') :
               towers[i].id = towers'[j].id =>
                  towers'[j].cooldown_counter = towers[i].cooldown_counter]_vars

\* C28 happens: the only tower has killed an enemy, no enemy is left on the
\* field, and after the last update the tower is ready, its counter at 0.
C28_Witness ==
    /\ ret.op = "update"
    /\ game_state = GAME_STATE_PLAYING
    /\ score > 0
    /\ enemies = <<>>
    /\ Len(towers) = 1
    /\ towers[1].cooldown_counter = 0

\* C28: the attack of a tower whose cooldown counter has reached 0 sets the
\* counter to the current cooldown, whether it hit an enemy or found none in
\* range.
C28_AttemptResets ==
    [][Update =>
          \A i \in 1..Len(towers) :
             towers[i].cooldown_counter <= 0 =>
                towers'[i].cooldown_counter = towers[i].cooldown]_vars

\* C29: in every reachable state the level of every tower is at least 1 and
\* its cooldown counter at least 0: the counter is never lowered below 0,
\* however attacks and upgrades alternate.
C29_LevelAndCounter ==
    /\ sentry.level >= 1 /\ sentry.cooldown_counter >= 0
    /\ bomber.level >= 1 /\ bomber.cooldown_counter >= 0

\* C29 happens: the tower was upgraded twice while its cooldown was running,
\* so that the counter is above the cooldown it has now, and has counted down
\* since.
C29_Witness ==
    /\ sentry.level = 3
    /\ sentry.cooldown_counter > sentry.cooldown
    /\ sentry.cooldown_counter < 30
    /\ \E i \in 1..Len(raiders) : raiders[i].health = 40

C31_LivesPerExit ==
    [][/\ lives' <= lives
       /\ lives' # lives => Update
       /\ Update =>
             /\ lives' = lives - Cardinality({ i \in 1..Len(enemies) :
                                                 enemies[i].path_index >= Len(path) - 1 })
             /\ (\A i \in 1..Len(enemies) :
                    \/ enemies[i].health > 0
                    \/ enemies[i].path_index >= Len(path) - 1)
                   => money' = money /\ score' = score]_vars

\* C31 happens: of the two enemies of the first wave one was killed and paid
\* for and the other has left through the exit, for one life and no money.
C31_Witness ==
    /\ ret.op = "update"
    /\ lives = StartLives - 1
    /\ score = 10
    /\ current_wave = 1 /\ ~active
    /\ enemies = <<>>
    /\ game_state = GAME_STATE_PLAYING

\* C32: in every reachable state money <= 200 + score: placing, upgrading
\* and selling towers, in any order and any number of times, never adds to
\* the money on balance, since a sale refunds at most what the tower has
\* cost; money grows only by the values of killed enemies, which the score
\* counts as well.
C32_MoneyBelowScore == money <= StartMoney + score

\* C32 happens: after kills, two towers that were placed have both been sold
\* again, and the money is below 200 + score by what the sales did not
\* refund.
C32_Witness ==
    /\ ret.op = "sell_selected_tower" /\ ret.ok
    /\ score > 0
    /\ next_tower = 3
    /\ towers = <<>>
    /\ money < StartMoney + score

\* C33, as the code has it: no tower hits an enemy whose health was <= 0
\* when the update began, in this or in a later update: such an enemy is
\* removed before the towers attack, so every enemy that a tower hits in an
\* update has just been created or began the update with health above 0.
\* (Within one update a tower that attacks after another may hit an enemy
\* that the earlier tower has just brought to <= 0.)
C33_HitsOnLiveAtStart ==
    [][Update =>
          /\ \A i \in 1..Len(enemies) :
                enemies[i].health <= 0 =>
                   \A j \in 1..Len(enemies') : enemies'[j].id # enemies[i].id
          /\ \A j \in 1..Len(enemies') : \A k \in 1..Len(towers) :
                (/\ towers[k].cooldown_counter <= 0
                 /\ IF towers[k].name = "bomber"
                    THEN Sq(Scale * towers[k].x - enemies'[j].x)
                            + Sq(Scale * towers[k].y - enemies'[j].y)
                               <= Sq(Scale * towers[k].radius)
                    ELSE towers'[k].target = enemies'[j].id)
                => \/ enemies'[j].id = next_enemy /\ next_enemy' = next_enemy + 1
                   \/ \E i \in 1..Len(enemies) :
                         /\ enemies[i].id = enemies'[j].id
                         /\ enemies[i].health > 0
                         /\ enemies'[j].health <= enemies[i].health - towers[k].damage]_vars

\* C33 happens: two towers have fired at the same enemy in one update, and
\* the enemy was at or below 0 already before the hit of the second.
C33_Witness ==
    /\ ret.op = "update"
    /\ Len(towers) = 2
    /\ towers[1].name # "bomber" /\ towers[2].name # "bomber"
    /\ towers[1].cooldown_counter = towers[1].cooldown
    /\ towers[2].cooldown_counter = towers[2].cooldown
    /\ towers[1].target = towers[2].target
    /\ \E j \in 1..Len(enemies) :
          /\ enemies[j].id = towers[2].target
          /\ enemies[j].health + towers[2].damage <= 0

\* C33: no tower hits an enemy whose health is already <= 0: of the towers
\* that hit an enemy in an update, the last one, and so every one, found it
\* with health above 0.
C33_NoHitOnDead ==
    [][Update =>
          \A j \in 1..Len(enemies') : \A k \in 1..Len(towers) :
             LET hit(m) ==
                     /\ towers[m].cooldown_counter <= 0
                     /\ IF towers[m].name = "bomber"
                        THEN Sq(Scale * towers[m].x - enemies'[j].x)
                                + Sq(Scale * towers[m].y - enemies'[j].y)
                                   <= Sq(Scale * towers[m].radius)
                        ELSE towers'[m].target = enemies'[j].id
             IN (hit(k) /\ \A m \in (k + 1)..Len(towers) : ~hit(m))
                   => enemies'[j].health + towers[k].damage > 0]_vars

\* C34, as the code has it: a hit sets the cooldown counter to the current
\* cooldown and the attacks that follow only lower it, so attacks keep the
\* counter at or below the cooldown; an upgrade shortens the cooldown and
\* leaves the counter as it is, so that after an upgrade made while the
\* counter is running the counter can be above the current cooldown.  In
\* every reachable state the counter is at most the cooldown of the
\* prototype.
C34_CounterBelowBaseCooldown ==
    /\ [](/\ sentry.cooldown_counter <= BasicTower.cooldown
          /\ sentry.cooldown <= BasicTower.cooldown
          /\ bomber.cooldown_counter <= BomberTower.cooldown)
    /\ [][SentryAttack =>
             (sentry.cooldown_counter <= sentry.cooldown
                 => sentry'.cooldown_counter <= sentry'.cooldown)]_vars
    /\ [][SentryUpgrade =>
             /\ sentry'.cooldown_counter = sentry.cooldown_counter
             /\ sentry'.cooldown <= sentry.cooldown]_vars

\* C34 happens: the tower hit at level 1, counted five frames down from 30
\* and was upgraded: its counter, 25, is above its cooldown, now 24.
C34_Witness ==
    /\ sentry.level = 2
    /\ sentry.cooldown = 24
    /\ sentry.cooldown_counter = 25
    /\ sentry.target # None

\* C34: in every reachable state the cooldown counter of a tower is at most
\* its current cooldown, also when the tower is upgraded while the counter
\* is running.
C34_CounterBelowCooldown ==
    /\ sentry.cooldown_counter <= sentry.cooldown
    /\ bomber.cooldown_counter <= bomber.cooldown

\* C35: whenever a wave is active, current_wave is below the number of waves
\* and enemy_index is at most the length of the current wave, so that update
\* never reads past the list of waves or past the end of a wave, after any
\* sequence of add_wave, start_wave and update.
C35_WaveIndexInRange ==
    /\ current_wave >= 0 /\ enemy_index >= 0
    /\ active =>
          /\ current_wave < Len(waves)
          /\ enemy_index <= Len(waves[current_wave + 1])

\* C35 happens: the second wave, shorter than the first and added while the
\* first was being spawned or after, is active with every enemy spawned.
C35_Witness ==
    /\ ret.op = "wave_manager.update"
    /\ active
    /\ Len(waves) = 2
    /\ current_wave = 1
    /\ Len(waves[2]) < Len(waves[1])
    /\ enemy_index = Len(waves[2])
    /\ spawn_timer = SpawnDelay - 1

\* C36: while update keeps being called, an active wave ends unless the game
\* ends first, and a wave that is active when the game ends stays active.
\* The ticks of a wave are counted by
\* SpawnDelay * enemy_index + spawn_timer: 0 when start_wave activates the
\* wave, one more after every update but the last, and the update that ends
\* the wave of n enemies is the one taken at (n + 1) * SpawnDelay - 1, with
\* enemy_index = n, and it advances current_wave; every step of enemy_index
\* creates an enemy, and no other step touches the wave.
C36_WaveCompletes ==
    /\ active ~> (~active \/ game_state # GAME_STATE_PLAYING)
    /\ [][(~active /\ active') => (enemy_index' = 0 /\ spawn_timer' = 0)]_vars
    /\ [][(active /\ ret'.op = "update") =>
            LET n == Len(waves[current_wave + 1])
                ticks == SpawnDelay * enemy_index + spawn_timer
            IN IF ticks = (n + 1) * SpawnDelay - 1
               THEN /\ ~active'
                    /\ current_wave' = current_wave + 1
                    /\ enemy_index = n
                    /\ enemy_index' = n
               ELSE /\ ticks < (n + 1) * SpawnDelay - 1
                    /\ active'
                    /\ current_wave' = current_wave
                    /\ SpawnDelay * enemy_index' + spawn_timer' = ticks + 1
                    /\ next_enemy' - next_enemy = enemy_index' - enemy_index]_vars
    /\ [][(active /\ ret'.op # "update") =>
            UNCHANGED <<active, current_wave, enemy_index, spawn_timer>>]_vars
    /\ [][(active /\ game_state # GAME_STATE_PLAYING) =>
            (active' /\ game_state' = game_state)]_vars

\* C36 as stated, every started wave ends: update is not called once the
\* game has ended, so no wave may be active when the game ends.
C36_NoWaveCutShort == game_state # GAME_STATE_PLAYING => ~active

\* C36 witness: the first wave, of three enemies, has ended in the last
\* update and the game goes on.
C36_Witness ==
    /\ ret.op = "update"
    /\ ~active
    /\ current_wave = 1
    /\ enemy_index = Len(waves[1])
    /\ Len(waves[1]) = 3
    /\ spawn_timer = 0
    /\ next_enemy = 4
    /\ game_state = GAME_STATE_PLAYING

\* C37: while update keeps being called, every enemy in the list leaves it
\* unless the game ends first; an enemy leaves the list only in an update and
\* only if, before it, it stood on the last waypoint or its health was <= 0;
\* once the game has ended, the list stays as it is.  The enemies have the ids
\* 1 to the number of enemies in the waves.
C37_EnemiesLeave ==
    /\ \A id \in 1..(Len(RunWaves[1]) + Len(RunWaves[2])) :
          (\E i \in 1..Len(enemies) : enemies[i].id = id)
             ~> \/ \A i \in 1..Len(enemies) : enemies[i].id # id
                \/ game_state # GAME_STATE_PLAYING
    /\ [][\A i \in 1..Len(enemies) :
            (\A j \in 1..Len(enemies') : enemies'[j].id # enemies[i].id) =>
               /\ game_state = GAME_STATE_PLAYING
               /\ ret'.op = "update"
               /\ \/ enemies[i].path_index >= Len(path) - 1
                  \/ enemies[i].health <= 0]_vars
    /\ [][game_state # GAME_STATE_PLAYING => enemies' = enemies]_vars

\* C37 as stated, no enemy stays in the list forever: update is not called
\* once the game has ended, so no enemy may be in the list when the game ends.
C37_NoEnemyLeftBehind == game_state # GAME_STATE_PLAYING => enemies = <<>>

\* C37 witness: the first two enemies have left the list, one killed and one
\* through the end of the path, and the game goes on.
C37_Witness ==
    /\ ret.op = "update"
    /\ next_enemy >= 3
    /\ \A i \in 1..Len(enemies) : enemies[i].id > 2
    /\ lives = StartLives - 1
    /\ score > 0
    /\ game_state = GAME_STATE_PLAYING

\* C38: if update keeps being called and the player starts the next wave
\* whenever no wave is active (so it never stays forever without an active
\* wave while waves are left and the game is played), the game eventually is
\* over or won.
C38_GameEnds ==
    []<>(active \/ current_wave >= Len(waves)
                \/ game_state # GAME_STATE_PLAYING)
        => <>(game_state \in {GAME_STATE_GAME_OVER, GAME_STATE_VICTORY})

\* C38 witness: every wave has been started and has ended, and the last update
\* has found the field empty: the game is won.
C38_Witness ==
    /\ ret.op = "update"
    /\ current_wave = Len(waves)
    /\ ~active
    /\ enemies = <<>>
    /\ game_state = GAME_STATE_VICTORY

=============================================================================
